---- MODULE Spec2Model ----
(***************************************************************************)
(* Verification model of the Poseidon / IPA transcript script compiler:    *)
(* the canonical field codec, the constant fusion engine, the transcript   *)
(* and accumulator protocol, and the witness-pattern stored program run on *)
(* a stack machine.                                                        *)
(*                                                                         *)
(* Scaling.  A field element is an integer modulo PallasModulus, a small   *)
(* stand-in for the 255-bit Pallas prime.  A "32-byte encoding" is one     *)
(* word, an integer in 0..EncMax; the words PallasModulus..EncMax are the  *)
(* non-canonical encodings.  A byte string is a sequence of words.         *)
(***************************************************************************)
EXTENDS Integers, Sequences, FiniteSets, TLC

(***************************************************************************)
(* Bounds of the model                                                     *)
(***************************************************************************)
\* the field modulus p (stands for PALLAS_MODULUS_BYTES)
PallasModulus == 7
\* the largest value one 32-byte word can encode (stands for 2^256 - 1)
EncMax == 8
\* the width in bits of the step counter (stands for the 32 of u32)
StepBits == 2
\* no witness is built once MaxAccepted transitions have been accepted
MaxAccepted == 4

(***************************************************************************)
(* Program constants                                                       *)
(***************************************************************************)
FIELD_BYTES == 32
FULL_ROUNDS == 8
PARTIAL_ROUNDS == 56
TOTAL_ROUNDS == 64

\* Fp: the field elements; FieldElement: the type [u8; FIELD_BYTES]
Fp == 0 .. (PallasModulus - 1)
FieldElement == 0 .. EncMax

\* Option<T>: None is the empty sequence, Some(x) the sequence <<x>>
None == <<>>
Some(x) == <<x>>
is_some(o) == o # <<>>
unwrap_or(o, d) == IF o # <<>> THEN o[1] ELSE d

Fp_ZERO == 0
\* u32::MAX
U32_MAX == 2 ^ StepBits - 1
Fp_ONE == 1 % PallasModulus

(***************************************************************************)
(* Canonical field codec                                                   *)
(***************************************************************************)
\* Fp::to_repr: the canonical encoding of a field element
fp_to_bytes(fp) == fp

\* a decoder that also accepts the encoding of p itself
bytes_to_fp_accepts_modulus(bytes) == IF bytes <= PallasModulus THEN Some(bytes) ELSE None

\* Fp::from_repr: None for an encoding that is not below the modulus
bytes_to_fp(bytes) == IF bytes < PallasModulus THEN Some(bytes) ELSE None

(***************************************************************************)
(* The permutation (the crate's crypto module), with its textbook          *)
(* schedule: every round adds the three round constants, applies the       *)
(* S-box (all three elements in a full round, s0 alone in a partial        *)
(* round) and multiplies by the dense matrix.                              *)
(***************************************************************************)
MDS_MATRIX == << <<2, 3, 1>>, <<1, 2, 3>>, <<3, 1, 2>> >>

get_round_constant(r, i) == ((r + 2) * (r + i + 1) + 3 * i + 1) % PallasModulus

Fp_from(n) == n % PallasModulus

get_mds_fp ==
    << <<Fp_from(MDS_MATRIX[1][1]), Fp_from(MDS_MATRIX[1][2]), Fp_from(MDS_MATRIX[1][3])>>,
       <<Fp_from(MDS_MATRIX[2][1]), Fp_from(MDS_MATRIX[2][2]), Fp_from(MDS_MATRIX[2][3])>>,
       <<Fp_from(MDS_MATRIX[3][1]), Fp_from(MDS_MATRIX[3][2]), Fp_from(MDS_MATRIX[3][3])>> >>

is_full_round(r) == r < 4 \/ r >= 60

pow5(x) == (x * x * x * x * x) % PallasModulus

DenseRow(m, i, s) == (m[i][1] * s[1] + m[i][2] * s[2] + m[i][3] * s[3]) % PallasModulus

DenseMds(m, s) == <<DenseRow(m, 1, s), DenseRow(m, 2, s), DenseRow(m, 3, s)>>

TextbookRound(r, s) ==
    LET a == <<(s[1] + get_round_constant(r, 0)) % PallasModulus,
               (s[2] + get_round_constant(r, 1)) % PallasModulus,
               (s[3] + get_round_constant(r, 2)) % PallasModulus>>
        b == IF is_full_round(r)
             THEN <<pow5(a[1]), pow5(a[2]), pow5(a[3])>>
             ELSE <<pow5(a[1]), a[2], a[3]>>
    IN  DenseMds(get_mds_fp, b)

\* rounds from..(to-1) of the textbook schedule, in ascending order: the
\* first half of the range is run to a value n, then the second half on n
RECURSIVE TextbookRounds(_, _, _)
TextbookRounds(from, to, s) ==
    IF from >= to THEN s
    ELSE IF to = from + 1 THEN TextbookRound(from, s)
    ELSE LET mid == (from + to) \div 2
         IN  CHOOSE out \in {TextbookRounds(mid, to, n) :
                                n \in {TextbookRounds(from, mid, s)}} : TRUE

PoseidonPermutation(s) == TextbookRounds(0, TOTAL_ROUNDS, s)

\* the two-input hash, tabulated once
PoseidonTable ==
    [ab \in Fp \X Fp |-> PoseidonPermutation(<<ab[1], ab[2], 0>>)[1]] @@ <<>>

\* PoseidonHash::hash
PoseidonHash_hash(a, b) == PoseidonTable[<<a, b>>]

\* PoseidonHash::hash_many: the first input seeds the running value and
\* every further input is absorbed with the two-input hash
RECURSIVE AbsorbAll(_, _)
AbsorbAll(state, inputs) ==
    IF inputs = <<>> THEN state
    ELSE AbsorbAll(PoseidonHash_hash(state, Head(inputs)), Tail(inputs))

PoseidonHash_hash_many(inputs) == AbsorbAll(Head(inputs), Tail(inputs))

(***************************************************************************)
(* Transcript and accumulator (verifier_contract.rs, proof_generator.rs)   *)
(***************************************************************************)
(***************************************************************************)
(* Constant fusion (FusedPoseidonConstants) and the two partial-round      *)
(* schedules                                                               *)
(***************************************************************************)
\* an iteration that adds to the accumulators instead of replacing them
fuse_step_accumulating(mds, r, st) ==
    LET c0 == get_round_constant(r, 0)
        c1 == get_round_constant(r, 1)
        c2 == get_round_constant(r, 2)
        effective_c0 == (c0 + mds[1][2] * st.acc_c1 + mds[1][3] * st.acc_c2) % PallasModulus
    IN  [partial_round_c0 |-> Append(st.partial_round_c0, effective_c0),
         acc_c1 |-> (st.acc_c1 + mds[2][2] * c1 + mds[2][3] * c2) % PallasModulus,
         acc_c2 |-> (st.acc_c2 + mds[3][2] * c1 + mds[3][3] * c2) % PallasModulus]

\* one iteration of the `for r in 4..60` loop of FusedPoseidonConstants::compute;
\* st carries partial_round_c0, acc_c1 and acc_c2
fuse_step(mds, r, st) ==
    LET c0 == get_round_constant(r, 0)
        c1 == get_round_constant(r, 1)
        c2 == get_round_constant(r, 2)
        effective_c0 == (c0 + mds[1][2] * st.acc_c1 + mds[1][3] * st.acc_c2) % PallasModulus
    IN  [partial_round_c0 |-> Append(st.partial_round_c0, effective_c0),
         acc_c1 |-> (mds[2][2] * c1 + mds[2][3] * c2) % PallasModulus,
         acc_c2 |-> (mds[3][2] * c1 + mds[3][3] * c2) % PallasModulus]

\* the loop over rounds from .. to-1
RECURSIVE fuse_loop(_, _, _, _)
fuse_loop(mds, from, to, st) ==
    IF from >= to THEN st
    ELSE IF to = from + 1 THEN fuse_step(mds, from, st)
    ELSE LET mid == (from + to) \div 2
         IN  CHOOSE out \in {fuse_loop(mds, mid, to, n) :
                                n \in {fuse_loop(mds, from, mid, st)}} : TRUE

round_constants(r) ==
    <<get_round_constant(r, 0), get_round_constant(r, 1), get_round_constant(r, 2)>>

\* FusedPoseidonConstants::compute
FusedPoseidonConstants_compute ==
    [mds |-> get_mds_fp,
     full_round_constants |->
         [k \in 1..FULL_ROUNDS |->
             round_constants(IF k <= 4 THEN k - 1 ELSE 60 + (k - 5))],
     partial_round_c0 |->
         fuse_loop(get_mds_fp, 4, 4 + PARTIAL_ROUNDS,
                   [partial_round_c0 |-> <<>>, acc_c1 |-> Fp_ZERO,
                    acc_c2 |-> Fp_ZERO]).partial_round_c0] @@ <<>>

\* the mixing computed by generate_sparse_mds:
\* o0 = m00*s0 + m01*s1 + m02*s2, o1 = m10*s0 + s1, o2 = m20*s0 + s2
SparseMds(m, s) ==
    <<(m[1][1] * s[1] + m[1][2] * s[2] + m[1][3] * s[3]) % PallasModulus,
      (m[2][1] * s[1] + s[2]) % PallasModulus,
      (m[3][1] * s[1] + s[3]) % PallasModulus>>

\* a partial round of the fused schedule: only partial_round_c0[r-4] is
\* added, to s0; fifth power on s0; sparse mixing
FusedPartialRound(fc, r, s) ==
    LET a0 == (s[1] + fc.partial_round_c0[r - 4 + 1]) % PallasModulus
    IN  SparseMds(fc.mds, <<pow5(a0), s[2], s[3]>>)

RECURSIVE FusedPartialRounds(_, _, _, _)
FusedPartialRounds(fc, from, to, s) ==
    IF from >= to THEN s
    ELSE IF to = from + 1 THEN FusedPartialRound(fc, from, s)
    ELSE LET mid == (from + to) \div 2
         IN  CHOOSE out \in {FusedPartialRounds(fc, mid, to, n) :
                                n \in {FusedPartialRounds(fc, from, mid, s)}} : TRUE

\* a full round with the k-th stored triple of full-round constants
FusedFullRound(fc, k, s) ==
    LET rc == fc.full_round_constants[k]
    IN  DenseMds(fc.mds, <<pow5((s[1] + rc[1]) % PallasModulus),
                           pow5((s[2] + rc[2]) % PallasModulus),
                           pow5((s[3] + rc[3]) % PallasModulus)>>)

\* the 64 rounds with the constants compute() returns: 4 full rounds, the
\* 56 fused partial rounds, 4 full rounds
FusedPermutation(fc, s) ==
    LET first == FusedFullRound(fc, 4, FusedFullRound(fc, 3,
                     FusedFullRound(fc, 2, FusedFullRound(fc, 1, s))))
        middle == FusedPartialRounds(fc, 4, 4 + PARTIAL_ROUNDS, first)
    IN  FusedFullRound(fc, 8, FusedFullRound(fc, 7,
            FusedFullRound(fc, 6, FusedFullRound(fc, 5, middle))))

Min(a, b) == IF a <= b THEN a ELSE b

\* IPAAccumulator::new
IPAAccumulator_new(app_state_root) ==
    [transcript_hash |-> 0, app_state_root |-> app_state_root, step |-> 0]

\* the field elements of l.iter().zip(r.iter()): L.x, L.y, R.x, R.y per round,
\* for the rounds both lists have
RECURSIVE zip_lr(_, _)
zip_lr(l, r) ==
    IF l = <<>> \/ r = <<>> THEN <<>>
    ELSE <<l[1][1], l[1][2], r[1][1], r[1][2]>> \o zip_lr(Tail(l), Tail(r))

\* bytes_to_fp(x).unwrap_or(Fp::ZERO), element by element
RECURSIVE decode_or_zero(_)
decode_or_zero(elems) ==
    IF elems = <<>> THEN <<>>
    ELSE <<unwrap_or(bytes_to_fp(Head(elems)), Fp_ZERO)>> \o decode_or_zero(Tail(elems))

\* the list `inputs` that IPAStepWitness::compute_transcript_hash builds
transcript_inputs(w, prev_transcript) ==
    decode_or_zero(<<prev_transcript>>
                   \o w.public_inputs
                   \o zip_lr(w.l_terms, w.r_terms)
                   \o <<w.a_scalar>>
                   \o w.b_scalar)

\* IPAStepWitness::compute_transcript_hash
compute_transcript_hash(w, prev_transcript) ==
    PoseidonHash_hash_many(transcript_inputs(w, prev_transcript))

\* a verify whose digest also absorbs new_app_state
verify_binding_app_state(w, prev_transcript) ==
    LET computed == PoseidonHash_hash_many(
                        transcript_inputs(w, prev_transcript)
                        \o decode_or_zero(w.new_app_state))
        expected == unwrap_or(bytes_to_fp(w.next_transcript_hash), Fp_ONE)
    IN  computed = expected

\* IPAStepWitness::verify
verify(w, prev_transcript) ==
    LET computed == compute_transcript_hash(w, prev_transcript)
        expected == unwrap_or(bytes_to_fp(w.next_transcript_hash), Fp_ONE)
    IN  computed = expected

\* VerifierContract::apply_transition on the contract's current_state:
\* Err(InvalidTranscript), or Ok with the new contract's current_state.
\* `step + 1` is a u32 addition: at u32::MAX it panics in a build with
\* overflow checks and wraps to 0 in a build without.
apply_transition(current, w, checks) ==
    IF ~verify(w, current.transcript_hash)
    THEN [ok |-> FALSE, err |-> "InvalidTranscript", state |-> current]
    ELSE IF current.step = U32_MAX /\ checks
    THEN [ok |-> FALSE, err |-> "panic", state |-> current]
    ELSE [ok |-> TRUE, err |-> "",
          state |-> [transcript_hash |-> w.next_transcript_hash,
                     app_state_root |-> unwrap_or(w.new_app_state, current.app_state_root),
                     step |-> (current.step + 1) % (U32_MAX + 1)]]

\* TranscriptBuilder::new
TranscriptBuilder_new(initial_state) == unwrap_or(bytes_to_fp(initial_state), Fp_ZERO)

\* TranscriptBuilder::absorb
absorb(state, element) ==
    PoseidonHash_hash(state, unwrap_or(bytes_to_fp(element), Fp_ZERO))

\* TranscriptBuilder::absorb_many
RECURSIVE absorb_many(_, _)
absorb_many(state, elements) ==
    IF elements = <<>> THEN state
    ELSE absorb_many(absorb(state, Head(elements)), Tail(elements))

\* TranscriptBuilder::absorb_lr_terms
RECURSIVE absorb_lr_terms(_, _, _)
absorb_lr_terms(state, l_terms, r_terms) ==
    IF l_terms = <<>> \/ r_terms = <<>> THEN state
    ELSE absorb_lr_terms(
             absorb(absorb(absorb(absorb(state, l_terms[1][1]), l_terms[1][2]),
                           r_terms[1][1]), r_terms[1][2]),
             Tail(l_terms), Tail(r_terms))

\* a validation that passes whatever the two lengths are
validate_always(proof) == TRUE

\* IPAProofComponents::validate
validate(proof) == Len(proof.l_commitments) = Len(proof.r_commitments)

\* ProofGenerator::generate_ipa_witness: Err(LRLengthMismatch), or Ok(witness)
generate_ipa_witness(current_transcript, public_inputs, proof, new_app_state) ==
    IF ~validate(proof)
    THEN [ok |-> FALSE, err |-> "LRLengthMismatch", witness |-> <<>>]
    ELSE LET t0 == TranscriptBuilder_new(current_transcript)
             t1 == absorb_many(t0, public_inputs)
             t2 == absorb_lr_terms(t1, proof.l_commitments, proof.r_commitments)
             t3 == absorb(t2, proof.a)
             t4 == IF is_some(proof.b) THEN absorb(t3, proof.b[1]) ELSE t3
         IN  [ok |-> TRUE, err |-> "",
              witness |-> <<[public_inputs |-> public_inputs,
                             l_terms |-> proof.l_commitments,
                             r_terms |-> proof.r_commitments,
                             a_scalar |-> proof.a,
                             b_scalar |-> proof.b,
                             new_app_state |-> new_app_state,
                             next_transcript_hash |-> fp_to_bytes(t4)]>>]

\* what TranscriptBuilder::absorb appends to `absorbed`
absorbed_push(absorbed, element) ==
    Append(absorbed, unwrap_or(bytes_to_fp(element), Fp_ZERO))

\* `absorbed` after TranscriptBuilder::absorb_many
RECURSIVE absorbed_many(_, _)
absorbed_many(absorbed, elements) ==
    IF elements = <<>> THEN absorbed
    ELSE absorbed_many(absorbed_push(absorbed, Head(elements)), Tail(elements))

\* a cross-term loop that absorbs R before L
RECURSIVE absorbed_lr_terms_r_first(_, _, _)
absorbed_lr_terms_r_first(absorbed, l_terms, r_terms) ==
    IF l_terms = <<>> \/ r_terms = <<>> THEN absorbed
    ELSE absorbed_lr_terms_r_first(
             absorbed_push(absorbed_push(absorbed_push(absorbed_push(
                 absorbed, r_terms[1][1]), r_terms[1][2]), l_terms[1][1]), l_terms[1][2]),
             Tail(l_terms), Tail(r_terms))

\* `absorbed` after TranscriptBuilder::absorb_lr_terms
RECURSIVE absorbed_lr_terms(_, _, _)
absorbed_lr_terms(absorbed, l_terms, r_terms) ==
    IF l_terms = <<>> \/ r_terms = <<>> THEN absorbed
    ELSE absorbed_lr_terms(
             absorbed_push(absorbed_push(absorbed_push(absorbed_push(
                 absorbed, l_terms[1][1]), l_terms[1][2]), r_terms[1][1]), r_terms[1][2]),
             Tail(l_terms), Tail(r_terms))

\* the `absorbed` vector of the transcript ProofGenerator::generate_ipa_witness
\* builds; TranscriptBuilder::new starts it with the initial state
generate_ipa_witness_absorbed(current_transcript, public_inputs, proof) ==
    LET a0 == <<TranscriptBuilder_new(current_transcript)>>
        a1 == absorbed_many(a0, public_inputs)
        a2 == absorbed_lr_terms(a1, proof.l_commitments, proof.r_commitments)
        a3 == absorbed_push(a2, proof.a)
    IN  IF is_some(proof.b) THEN absorbed_push(a3, proof.b[1]) ELSE a3

(***************************************************************************)
(* Script programs.  A stack item is a byte string, here a sequence of     *)
(* words: a 32-byte encoding or a script number n is <<n>>, a constants    *)
(* blob is the sequence of its encodings, and a SHA-256 digest is 32 cells *)
(* wide: the tag -1, then 31 position-weighted sums over the hashed string *)
(* (strings that differ in one cell, or in length, have distinct digests). *)
(* A program is a sequence of instructions [op, data].                     *)
(***************************************************************************)
Op(name) == [op |-> name, data |-> <<>>]
\* push_bytes(data): the instruction that pushes data
push_bytes(data) == <<[op |-> "PUSH", data |-> data]>>
\* push_number(n): the instruction that pushes the number n
push_number(n) == <<[op |-> "PUSHNUM", data |-> <<n>>]>>
\* SHA-256 of a byte string; digest_cell(d, j) is the j-th sum
RECURSIVE digest_cell(_, _)
digest_cell(d, k) ==
    IF k > Len(d) THEN 0
    ELSE (d[k] + 3) * ((k - 1) \div 31 + 1) + digest_cell(d, k + 31)
Sha256(d) == <<-1>> \o [j \in 1..31 |-> digest_cell(d, j)]

\* HASH160 of a byte string
Hash160(d) == <<-2>> \o d
\* a signature check: the signature the holder of the key made
ValidSignature(sig, pubkey) == sig # <<>> /\ pubkey # <<>>

\* PALLAS_MODULUS_BYTES: the encoding of p
PALLAS_MODULUS_BYTES == <<PallasModulus>>

\* a buffer that keeps what the invocation before it emitted
OptimizedScriptBuilder_new_reused(earlier) ==
    IF earlier = <<>> THEN <<>> ELSE earlier[Len(earlier)]

\* OptimizedScriptBuilder::new, Vec::new, Vec::with_capacity: the buffer a
\* generator starts from is empty, whatever was emitted before (earlier is
\* the outputs of the invocations that came before, oldest first)
OptimizedScriptBuilder_new(earlier) == <<>>

\* OptimizedScriptBuilder: the instructions each method appends
dup == <<Op("OP_DUP")>>
drop == <<Op("OP_DROP")>>
swap == <<Op("OP_SWAP")>>
over == <<Op("OP_OVER")>>
less_than == <<Op("OP_LESSTHAN")>>
op_verify == <<Op("OP_VERIFY")>>
to_alt == <<Op("OP_TOALTSTACK")>>
from_alt == <<Op("OP_FROMALTSTACK")>>
pick(n) == push_number(n) \o <<Op("OP_PICK")>>
roll(n) == push_number(n) \o <<Op("OP_ROLL")>>
add == <<Op("OP_ADD")>>
mul == <<Op("OP_MUL")>>
modulo == <<Op("OP_MOD")>>

\* an S-box whose first modulus fetch ignores the square above x
sbox_p_at_first_fetch_shallow(p_depth) ==
    dup \o dup \o mul \o pick(p_depth) \o modulo
    \o dup \o dup \o mul \o pick(p_depth + 2) \o modulo
    \o roll(2) \o mul \o pick(p_depth + 1) \o modulo
    \o swap \o drop

\* OptimizedScriptBuilder::sbox_p_at
sbox_p_at(p_depth) ==
    dup \o dup \o mul \o pick(p_depth + 1) \o modulo
    \o dup \o dup \o mul \o pick(p_depth + 2) \o modulo
    \o roll(2) \o mul \o pick(p_depth + 1) \o modulo
    \o swap \o drop

\* OptimizedScriptBuilder::push_data
push_data(data) == push_bytes(data)

\* OptimizedScriptBuilder::field_add_pick_p
field_add_pick_p(p_depth) == add \o pick(p_depth) \o modulo

\* depths of the constants below a state [s0, s1, s2] that is on top
P_DEPTH == 12
M00_DEPTH == 11
M01_DEPTH == 10
M02_DEPTH == 9
M10_DEPTH == 8
M11_DEPTH == 7
M12_DEPTH == 6
M20_DEPTH == 5
M21_DEPTH == 4
M22_DEPTH == 3

\* generate_dense_mds
generate_dense_mds ==
    to_alt \o to_alt \o to_alt
    \* o0
    \o from_alt \o dup \o to_alt
    \o pick(M00_DEPTH - 3 + 1) \o mul \o pick(P_DEPTH - 3 + 1) \o modulo
    \o from_alt \o to_alt
    \o from_alt \o dup \o to_alt
    \o from_alt \o to_alt
    \o pick(M01_DEPTH - 3 + 2) \o mul \o pick(P_DEPTH - 3 + 2) \o modulo
    \o add \o pick(P_DEPTH - 3 + 1) \o modulo
    \o from_alt \o to_alt
    \o from_alt \o to_alt
    \o from_alt \o dup \o to_alt
    \o from_alt \o to_alt
    \o from_alt \o to_alt
    \o pick(M02_DEPTH - 3 + 3) \o mul \o pick(P_DEPTH - 3 + 3) \o modulo
    \o add \o pick(P_DEPTH - 3 + 2) \o modulo
    \* o1
    \o from_alt \o to_alt \o from_alt \o to_alt \o from_alt
    \o dup \o to_alt \o from_alt \o to_alt \o from_alt \o to_alt
    \o pick(M10_DEPTH - 3 + 1) \o mul \o pick(P_DEPTH - 3 + 2) \o modulo
    \o from_alt \o to_alt
    \o from_alt \o dup \o to_alt
    \o from_alt \o to_alt
    \o pick(M11_DEPTH - 3 + 2) \o mul \o pick(P_DEPTH - 3 + 3) \o modulo
    \o add \o pick(P_DEPTH - 3 + 2) \o modulo
    \o from_alt \o to_alt
    \o from_alt \o to_alt
    \o from_alt \o dup \o to_alt
    \o from_alt \o to_alt
    \o from_alt \o to_alt
    \o pick(M12_DEPTH - 3 + 3) \o mul \o pick(P_DEPTH - 3 + 4) \o modulo
    \o add \o pick(P_DEPTH - 3 + 3) \o modulo
    \* o2
    \o from_alt
    \o pick(M20_DEPTH - 3 + 2) \o mul \o pick(P_DEPTH - 3 + 3) \o modulo
    \o from_alt
    \o pick(M21_DEPTH - 3 + 2) \o mul \o pick(P_DEPTH - 3 + 4) \o modulo
    \o add \o pick(P_DEPTH - 3 + 3) \o modulo
    \o from_alt
    \o pick(M22_DEPTH - 3 + 2) \o mul \o pick(P_DEPTH - 3 + 4) \o modulo
    \o add \o pick(P_DEPTH - 3 + 3) \o modulo

\* generate_sparse_mds
generate_sparse_mds ==
    to_alt \o to_alt \o to_alt
    \* o0
    \o from_alt \o dup \o to_alt
    \o pick(M00_DEPTH - 3 + 1) \o mul \o pick(P_DEPTH - 3 + 1) \o modulo
    \o from_alt \o to_alt
    \o from_alt \o dup \o to_alt
    \o from_alt \o to_alt
    \o pick(M01_DEPTH - 3 + 2) \o mul \o pick(P_DEPTH - 3 + 2) \o modulo
    \o add \o pick(P_DEPTH - 3 + 1) \o modulo
    \o from_alt \o to_alt
    \o from_alt \o to_alt
    \o from_alt \o dup \o to_alt
    \o from_alt \o to_alt
    \o from_alt \o to_alt
    \o pick(M02_DEPTH - 3 + 3) \o mul \o pick(P_DEPTH - 3 + 3) \o modulo
    \o add \o pick(P_DEPTH - 3 + 2) \o modulo
    \* o1
    \o from_alt \o to_alt
    \o from_alt \o to_alt
    \o from_alt \o dup \o to_alt
    \o from_alt \o to_alt
    \o from_alt \o to_alt
    \o pick(M10_DEPTH - 3 + 2) \o mul \o pick(P_DEPTH - 3 + 3) \o modulo
    \o from_alt \o to_alt
    \o from_alt \o dup \o to_alt
    \o from_alt \o to_alt
    \o add \o pick(P_DEPTH - 3 + 2) \o modulo
    \* o2
    \o from_alt
    \o pick(M20_DEPTH - 3 + 2) \o mul \o pick(P_DEPTH - 3 + 3) \o modulo
    \o from_alt \o drop
    \o from_alt
    \o add \o pick(P_DEPTH - 3 + 2) \o modulo

\* generate_full_round_opt
generate_full_round_opt(round) ==
    LET rc0 == <<fp_to_bytes(get_round_constant(round, 0))>>
        rc1 == <<fp_to_bytes(get_round_constant(round, 1))>>
        rc2 == <<fp_to_bytes(get_round_constant(round, 2))>>
    IN  push_data(rc2) \o field_add_pick_p(P_DEPTH + 1)
        \o swap \o push_data(rc1) \o field_add_pick_p(P_DEPTH + 1) \o swap
        \o roll(2) \o push_data(rc0) \o field_add_pick_p(P_DEPTH + 1)
        \o roll(2) \o roll(2)
        \o roll(2) \o sbox_p_at(P_DEPTH)
        \o roll(2) \o sbox_p_at(P_DEPTH)
        \o roll(2) \o sbox_p_at(P_DEPTH)
        \o generate_dense_mds

\* generate_partial_round_opt
generate_partial_round_opt(round) ==
    LET rc0 == <<fp_to_bytes(get_round_constant(round, 0))>>
        rc1 == <<fp_to_bytes(get_round_constant(round, 1))>>
        rc2 == <<fp_to_bytes(get_round_constant(round, 2))>>
    IN  push_data(rc2) \o field_add_pick_p(P_DEPTH + 1)
        \o swap \o push_data(rc1) \o field_add_pick_p(P_DEPTH + 1) \o swap
        \o roll(2) \o push_data(rc0) \o field_add_pick_p(P_DEPTH + 1)
        \o sbox_p_at(P_DEPTH)
        \o roll(2) \o roll(2)
        \o generate_sparse_mds

\* OptimizedScriptBuilder::init_constants
init_constants ==
    push_data(PALLAS_MODULUS_BYTES)
    \o [k \in 1..9 |->
           push_data(<<fp_to_bytes(get_mds_fp[(k - 1) \div 3 + 1][((k - 1) % 3) + 1])>>)[1]]

\* `for r in from..to { script.extend(generate_full_round_opt(r)) }`
RECURSIVE full_rounds_opt(_, _)
full_rounds_opt(from, to) ==
    IF from >= to THEN <<>>
    ELSE generate_full_round_opt(from) \o full_rounds_opt(from + 1, to)

\* `for r in from..to { script.extend(generate_partial_round_opt(r)) }`
RECURSIVE partial_rounds_opt(_, _)
partial_rounds_opt(from, to) ==
    IF from >= to THEN <<>>
    ELSE IF to = from + 1 THEN generate_partial_round_opt(from)
    ELSE LET mid == (from + to) \div 2
         IN  partial_rounds_opt(from, mid) \o partial_rounds_opt(mid, to)

\* a whole permutation whose partial rounds stop one round early
generate_poseidon_script_opt_short ==
    init_constants
    \o full_rounds_opt(0, 4) \o partial_rounds_opt(4, 59) \o full_rounds_opt(60, 64)

\* generate_poseidon_script_opt
generate_poseidon_script_opt ==
    init_constants
    \o full_rounds_opt(0, 4) \o partial_rounds_opt(4, 60) \o full_rounds_opt(60, 64)

\* the elements visited by `for row in &self.mds { for elem in row`
mds_elems(fc) ==
    <<fc.mds[1][1], fc.mds[1][2], fc.mds[1][3],
      fc.mds[2][1], fc.mds[2][2], fc.mds[2][3],
      fc.mds[3][1], fc.mds[3][2], fc.mds[3][3]>>

\* the elements visited by `for rc in &self.full_round_constants { for elem in rc`
full_elems(fc) ==
    [k \in 1..(3 * Len(fc.full_round_constants)) |->
        fc.full_round_constants[(k + 2) \div 3][((k - 1) % 3) + 1]]

\* the encodings of a list of field elements, concatenated
RECURSIVE extend_bytes(_)
extend_bytes(elems) ==
    IF elems = <<>> THEN <<>>
    ELSE <<fp_to_bytes(Head(elems))>> \o extend_bytes(Tail(elems))

\* FusedPoseidonConstants::to_witness_bytes
to_witness_bytes(fc) ==
    extend_bytes(mds_elems(fc))
    \o extend_bytes(full_elems(fc))
    \o extend_bytes(fc.partial_round_c0)

\* FusedPoseidonConstants::witness_size, in bytes
witness_size == 288 + 768 + 1792

\* FusedPoseidonConstants::witness_hash
witness_hash(fc) == Sha256(to_witness_bytes(fc))

\* get_constants_hash
get_constants_hash == witness_hash(FusedPoseidonConstants_compute)

\* generate_witness_mds
generate_witness_mds(base_idx) ==
    LET m_base == 3
    IN  to_alt \o to_alt \o to_alt
        \o from_alt \o dup \o to_alt
        \o pick(m_base + 0) \o mul \o pick(0) \o modulo
        \o from_alt \o from_alt \o from_alt

\* generate_witness_sparse_mds
generate_witness_sparse_mds(base_idx) ==
    LET m_base == 3
    IN  to_alt \o to_alt \o to_alt
        \o from_alt \o dup \o to_alt
        \o pick(m_base + 0) \o mul \o pick(0) \o modulo
        \o from_alt \o from_alt \o from_alt

\* generate_witness_full_round
generate_witness_full_round(round) ==
    LET base_idx == IF round < 4 THEN 3 + round * 3
                    ELSE 3 + 4 * 3 + 56 + (round - 60) * 3
    IN  pick(base_idx + 2 + 2) \o add \o pick(12 + base_idx) \o modulo
        \o swap \o pick(base_idx + 1 + 2) \o add \o pick(12 + base_idx) \o modulo \o swap
        \o roll(2) \o pick(base_idx + 0 + 2) \o add \o pick(12 + base_idx) \o modulo
        \o roll(2) \o roll(2)
        \o roll(2) \o sbox_p_at(12 + base_idx)
        \o roll(2) \o sbox_p_at(12 + base_idx)
        \o roll(2) \o sbox_p_at(12 + base_idx)
        \o generate_witness_mds(base_idx)

\* generate_witness_partial_round
generate_witness_partial_round(round) ==
    LET c0_idx == 3 + 12 + (round - 4)
    IN  roll(2) \o pick(c0_idx + 2) \o add \o pick(12 + c0_idx) \o modulo
        \o sbox_p_at(12 + c0_idx)
        \o roll(2) \o roll(2)
        \o generate_witness_sparse_mds(c0_idx)

\* the fragments of rounds from .. to-1, in round order
RECURSIVE witness_rounds(_, _)
witness_rounds(from, to) ==
    IF from >= to THEN <<>>
    ELSE IF to = from + 1
         THEN IF from < 4 \/ from >= 60 THEN generate_witness_full_round(from)
              ELSE generate_witness_partial_round(from)
    ELSE LET mid == (from + to) \div 2
         IN  witness_rounds(from, mid) \o witness_rounds(mid, to)

\* a round logic that emits no instruction
generate_witness_poseidon_logic_empty == <<>>

\* generate_witness_poseidon_logic
generate_witness_poseidon_logic == witness_rounds(0, TOTAL_ROUNDS)

\* generate_witness_locking_script
generate_witness_locking_script ==
    to_alt \o to_alt \o to_alt \o to_alt
    \o <<Op("OP_SHA256")>>
    \o push_bytes(get_constants_hash)
    \o <<Op("OP_EQUALVERIFY")>>
    \o from_alt \o from_alt \o from_alt \o from_alt \o to_alt
    \o generate_witness_poseidon_logic
    \o drop \o drop
    \o from_alt
    \o <<Op("OP_EQUALVERIFY")>>

\* one push of the encoding of each field element of a list
RECURSIVE push_each(_)
push_each(elems) ==
    IF elems = <<>> THEN <<>>
    ELSE push_bytes(<<fp_to_bytes(Head(elems))>>) \o push_each(Tail(elems))

\* generate_witness_unlocking_script
generate_witness_unlocking_script(state, expected) ==
    LET fused == FusedPoseidonConstants_compute
    IN  push_bytes(PALLAS_MODULUS_BYTES)
        \o push_each(mds_elems(fused))
        \o push_each(full_elems(fused))
        \o push_each(fused.partial_round_c0)
        \o push_bytes(<<fp_to_bytes(state[1])>>)
        \o push_bytes(<<fp_to_bytes(state[2])>>)
        \o push_bytes(<<fp_to_bytes(state[3])>>)
        \o push_bytes(<<fp_to_bytes(expected)>>)

(***************************************************************************)
(* Byte layouts: WitnessSerializer and the accumulator record              *)
(***************************************************************************)
\* a FieldElement as the 32 bytes it is: the word little-endian, zero padded
field_element_bytes(e) ==
    [i \in 1..FIELD_BYTES |-> IF i <= 3 THEN (e \div (256 ^ (i - 1))) % 256 ELSE 0]

\* `slice.try_into().ok()` for a FieldElement: the 32 bytes as the array
field_element_try_into(slice) ==
    IF Len(slice) = FIELD_BYTES THEN Some(slice[1] + 256 * slice[2] + 65536 * slice[3])
    ELSE None

\* the integer a 32-byte array encodes, little-endian; an array with a
\* non-zero byte above the third stands for an integer above every modulus
\* of the model
repr_value(bytes) ==
    IF \E i \in 4..FIELD_BYTES : bytes[i] # 0 THEN 16777216
    ELSE bytes[1] + 256 * bytes[2] + 65536 * bytes[3]

RECURSIVE extend_from_slices(_)
extend_from_slices(elems) ==
    IF elems = <<>> THEN <<>>
    ELSE field_element_bytes(Head(elems)) \o extend_from_slices(Tail(elems))

\* a loop that also writes the terms one list has beyond the other
RECURSIVE serialize_lr_all(_, _)
serialize_lr_all(l_terms, r_terms) ==
    IF l_terms = <<>> /\ r_terms = <<>> THEN <<>>
    ELSE (IF l_terms = <<>> THEN <<>>
          ELSE extend_from_slices(<<Head(l_terms)[1], Head(l_terms)[2]>>))
         \o (IF r_terms = <<>> THEN <<>>
             ELSE extend_from_slices(<<Head(r_terms)[1], Head(r_terms)[2]>>))
         \o serialize_lr_all(IF l_terms = <<>> THEN <<>> ELSE Tail(l_terms),
                             IF r_terms = <<>> THEN <<>> ELSE Tail(r_terms))

\* the `for (l, r) in l_terms.iter().zip(r_terms.iter())` loop of serialize
RECURSIVE serialize_lr(_, _)
serialize_lr(l_terms, r_terms) ==
    IF l_terms = <<>> \/ r_terms = <<>> THEN <<>>
    ELSE extend_from_slices(<<Head(l_terms)[1], Head(l_terms)[2],
                              Head(r_terms)[1], Head(r_terms)[2]>>)
         \o serialize_lr(Tail(l_terms), Tail(r_terms))

\* a layout that writes the new application state before the second scalar
WitnessSerializer_serialize_state_first(witness) ==
    extend_from_slices(witness.public_inputs)
    \o serialize_lr(witness.l_terms, witness.r_terms)
    \o field_element_bytes(witness.a_scalar)
    \o (IF is_some(witness.new_app_state)
        THEN field_element_bytes(witness.new_app_state[1]) ELSE <<>>)
    \o (IF is_some(witness.b_scalar) THEN field_element_bytes(witness.b_scalar[1]) ELSE <<>>)
    \o field_element_bytes(witness.next_transcript_hash)

\* WitnessSerializer::serialize
WitnessSerializer_serialize(witness) ==
    extend_from_slices(witness.public_inputs)
    \o serialize_lr(witness.l_terms, witness.r_terms)
    \o field_element_bytes(witness.a_scalar)
    \o (IF is_some(witness.b_scalar) THEN field_element_bytes(witness.b_scalar[1]) ELSE <<>>)
    \o (IF is_some(witness.new_app_state)
        THEN field_element_bytes(witness.new_app_state[1]) ELSE <<>>)
    \o field_element_bytes(witness.next_transcript_hash)

\* `bytes[from..to]` with `.try_into().ok()?`: indexing past the end of
\* the input panics
read_element(bytes, from, to) ==
    IF to > Len(bytes) THEN [status |-> "panic", elem |-> 0, offset |-> from]
    ELSE LET e == field_element_try_into(SubSeq(bytes, from + 1, to))
         IN  IF is_some(e) THEN [status |-> "ok", elem |-> e[1], offset |-> to]
             ELSE [status |-> "None", elem |-> 0, offset |-> from]

\* an element read with no length check before it
take_element_unguarded(bytes, offset) == read_element(bytes, offset, offset + 32)

\* a length check that asks for one byte more than the element
take_element_one_more(bytes, offset) ==
    IF offset + 32 >= Len(bytes) THEN [status |-> "None", elem |-> 0, offset |-> offset]
    ELSE read_element(bytes, offset, offset + 32)

\* `if offset + 32 > bytes.len() { return None; }`, then the element at offset
take_element(bytes, offset) ==
    IF offset + 32 > Len(bytes) THEN [status |-> "None", elem |-> 0, offset |-> offset]
    ELSE read_element(bytes, offset, offset + 32)

\* the public-input loop of deserialize
RECURSIVE read_public_inputs(_, _, _, _)
read_public_inputs(bytes, offset, remaining, public_inputs) ==
    IF remaining = 0 THEN [status |-> "ok", offset |-> offset, items |-> public_inputs]
    ELSE LET e == take_element(bytes, offset)
         IN  IF e.status # "ok" THEN [status |-> e.status, offset |-> offset, items |-> <<>>]
             ELSE read_public_inputs(bytes, e.offset, remaining - 1,
                                     Append(public_inputs, e.elem))

\* the round loop of deserialize: one length check for the four elements
RECURSIVE read_rounds(_, _, _, _, _)
read_rounds(bytes, offset, remaining, l_terms, r_terms) ==
    IF remaining = 0
    THEN [status |-> "ok", offset |-> offset, l_terms |-> l_terms, r_terms |-> r_terms]
    ELSE IF offset + 128 > Len(bytes)
    THEN [status |-> "None", offset |-> offset, l_terms |-> <<>>, r_terms |-> <<>>]
    ELSE LET lx == read_element(bytes, offset, offset + 32)
             ly == read_element(bytes, offset + 32, offset + 64)
             rx == read_element(bytes, offset + 64, offset + 96)
             ry == read_element(bytes, offset + 96, offset + 128)
             bad == SelectSeq(<<lx, ly, rx, ry>>, LAMBDA e : e.status # "ok")
         IN  IF bad # <<>>
             THEN [status |-> bad[1].status, offset |-> offset,
                   l_terms |-> <<>>, r_terms |-> <<>>]
             ELSE read_rounds(bytes, offset + 128, remaining - 1,
                              Append(l_terms, <<lx.elem, ly.elem>>),
                              Append(r_terms, <<rx.elem, ry.elem>>))

\* WitnessSerializer::deserialize; status is "Some", "None" or "panic"
WitnessSerializer_deserialize(bytes, num_public_inputs, num_rounds, has_b, has_app_state) ==
    LET no(status) == [status |-> status, witness |-> <<>>]
        pis == read_public_inputs(bytes, 0, num_public_inputs, <<>>)
        lrs == read_rounds(bytes, pis.offset, num_rounds, <<>>, <<>>)
        a == take_element(bytes, lrs.offset)
        b == IF has_b THEN take_element(bytes, a.offset)
             ELSE [status |-> "ok", elem |-> 0, offset |-> a.offset]
        st == IF has_app_state THEN take_element(bytes, b.offset)
              ELSE [status |-> "ok", elem |-> 0, offset |-> b.offset]
        nth == take_element(bytes, st.offset)
    IN  IF pis.status # "ok" THEN no(pis.status)
        ELSE IF lrs.status # "ok" THEN no(lrs.status)
        ELSE IF a.status # "ok" THEN no(a.status)
        ELSE IF b.status # "ok" THEN no(b.status)
        ELSE IF st.status # "ok" THEN no(st.status)
        ELSE IF nth.status # "ok" THEN no(nth.status)
        ELSE [status |-> "Some",
              witness |-> <<[public_inputs |-> pis.items,
                             l_terms |-> lrs.l_terms,
                             r_terms |-> lrs.r_terms,
                             a_scalar |-> a.elem,
                             b_scalar |-> IF has_b THEN Some(b.elem) ELSE None,
                             new_app_state |-> IF has_app_state THEN Some(st.elem) ELSE None,
                             next_transcript_hash |-> nth.elem]>>]

\* u32::to_le_bytes and u32::from_le_bytes
to_le_bytes(n) == [i \in 1..4 |-> (n \div (256 ^ (i - 1))) % 256]
from_le_bytes(b) == b[1] + 256 * b[2] + 65536 * b[3] + 16777216 * b[4]

\* IPAAccumulator::to_script_bytes
IPAAccumulator_to_script_bytes(self) ==
    field_element_bytes(self.transcript_hash)
    \o field_element_bytes(self.app_state_root)
    \o to_le_bytes(self.step)

\* an accumulator decoder with no length check before its slices
IPAAccumulator_from_bytes_unguarded(bytes) ==
    LET th == read_element(bytes, 0, 32)
        root == read_element(bytes, 32, 64)
    IN  IF th.status # "ok" THEN [status |-> th.status, acc |-> <<>>]
        ELSE IF root.status # "ok" THEN [status |-> root.status, acc |-> <<>>]
        ELSE IF 68 > Len(bytes) THEN [status |-> "panic", acc |-> <<>>]
        ELSE [status |-> "Some",
              acc |-> <<[transcript_hash |-> th.elem,
                         app_state_root |-> root.elem,
                         step |-> from_le_bytes(SubSeq(bytes, 65, 68))]>>]

\* IPAAccumulator::from_bytes; status is "Some", "None" or "panic"
IPAAccumulator_from_bytes(bytes) ==
    IF Len(bytes) < 68 THEN [status |-> "None", acc |-> <<>>]
    ELSE LET th == read_element(bytes, 0, 32)
             root == read_element(bytes, 32, 64)
         IN  IF th.status # "ok" THEN [status |-> th.status, acc |-> <<>>]
             ELSE IF root.status # "ok" THEN [status |-> root.status, acc |-> <<>>]
             ELSE IF 68 > Len(bytes) THEN [status |-> "panic", acc |-> <<>>]
             ELSE [status |-> "Some",
                   acc |-> <<[transcript_hash |-> th.elem,
                              app_state_root |-> root.elem,
                              step |-> from_le_bytes(SubSeq(bytes, 65, 68))]>>]

\* VerifierContract::unlocking_script as the pushes it emits, the data of
\* each push byte by byte; the contract's constants are
\* FusedPoseidonConstants::compute()
VerifierContract_unlocking_script(current_state, witness) ==
    push_bytes(extend_from_slices(to_witness_bytes(FusedPoseidonConstants_compute)))
    \o push_bytes(IPAAccumulator_to_script_bytes(current_state))
    \o [i \in 1..Len(witness.public_inputs) |->
           push_bytes(field_element_bytes(witness.public_inputs[i]))[1]]
    \o [i \in 1..(4 * Min(Len(witness.l_terms), Len(witness.r_terms))) |->
           LET k == (i - 1) \div 4 + 1
               j == (i - 1) % 4
           IN  push_bytes(field_element_bytes(
                   IF j = 0 THEN witness.l_terms[k][1]
                   ELSE IF j = 1 THEN witness.l_terms[k][2]
                   ELSE IF j = 2 THEN witness.r_terms[k][1]
                   ELSE witness.r_terms[k][2]))[1]]
    \o push_bytes(field_element_bytes(witness.a_scalar))
    \o (IF is_some(witness.b_scalar)
        THEN push_bytes(field_element_bytes(witness.b_scalar[1])) ELSE <<>>)
    \o push_bytes(field_element_bytes(witness.next_transcript_hash))

\* ContractTransactionBuilder::build_unlocking_script
build_unlocking_script(self) ==
    VerifierContract_unlocking_script(self.input_state, self.witness)
    \o push_bytes(self.operator_signature)
    \o push_bytes(self.operator_pubkey)

\* generate_canonical_check
generate_canonical_check ==
    dup \o push_data(PALLAS_MODULUS_BYTES) \o less_than \o op_verify

\* generate_secure_witness_verification
generate_secure_witness_verification ==
    generate_canonical_check \o generate_witness_locking_script

\* generate_poseidon_verification_section
generate_poseidon_verification_section == generate_secure_witness_verification

\* IPAAccumulator::hash
IPAAccumulator_hash(self) ==
    LET transcript == unwrap_or(bytes_to_fp(self.transcript_hash), Fp_ZERO)
        app_root == unwrap_or(bytes_to_fp(self.app_state_root), Fp_ZERO)
        step_fp == self.step % PallasModulus
    IN  PoseidonHash_hash_many(<<transcript, app_root, step_fp>>)

\* VerifierContract::new; constants_hash is SHA-256 of the constants blob
\* as the bytes it is
VerifierContract_new(operator_pkh, initial_state) ==
    [operator_pkh |-> operator_pkh,
     current_state |-> initial_state,
     constants |-> FusedPoseidonConstants_compute,
     constants_hash |->
         Sha256(extend_from_slices(to_witness_bytes(FusedPoseidonConstants_compute)))]

\* the header of VerifierContract::locking_script: the three embedded
\* values, each moved to the side stack
locking_script_header(self) ==
    push_bytes(self.constants_hash) \o to_alt
    \o push_bytes(field_element_bytes(fp_to_bytes(IPAAccumulator_hash(self.current_state))))
    \o to_alt
    \o push_bytes(self.operator_pkh) \o to_alt

\* VerifierContract::locking_script
VerifierContract_locking_script(self) ==
    locking_script_header(self)
    \o over \o <<Op("OP_SHA256")>> \o from_alt \o <<Op("OP_EQUALVERIFY")>>
    \o swap \o <<Op("OP_SHA256")>> \o from_alt \o <<Op("OP_EQUALVERIFY")>>
    \o generate_poseidon_verification_section
    \o from_alt \o over \o <<Op("OP_HASH160")>> \o <<Op("OP_EQUALVERIFY")>>
    \o <<Op("OP_CHECKSIG")>>

\* the single-byte opcode OP_FALSE, OP_1 .. OP_16: it pushes the number n
small_int(n) == push_number(n)[1]

\* op_n of guard_engine/verify_public.rs: OP_FALSE, OP_1 .. OP_8, and OP_8
\* for every larger n
verify_public_op_n(n) == IF n <= 8 THEN small_int(n) ELSE small_int(8)

\* op_n of guard_engine/verify_binding.rs: OP_FALSE, OP_1 .. OP_4, and OP_4
\* for every larger n
verify_binding_op_n(n) == IF n <= 4 THEN small_int(n) ELSE small_int(4)

\* one pass of the first loop of copy_and_hash_witnesses
hash_witness(witness_offset) ==
    <<verify_public_op_n(witness_offset + 2), Op("OP_PICK"),
      verify_public_op_n(witness_offset + 1 + 1), Op("OP_PICK"),
      verify_public_op_n(witness_offset + 0 + 2), Op("OP_PICK"),
      Op("OP_CAT"), Op("OP_CAT"), Op("OP_SHA256"), Op("OP_TOALTSTACK")>>

RECURSIVE hash_witnesses(_, _)
hash_witnesses(i, total_witnesses) ==
    IF i >= total_witnesses THEN <<>>
    ELSE hash_witness(3 + (total_witnesses - 1 - i) * 3)
         \o hash_witnesses(i + 1, total_witnesses)

\* VerifyPublicData::copy_and_hash_witnesses
copy_and_hash_witnesses(num_inputs, num_outputs) ==
    LET total_witnesses == num_inputs + num_outputs
    IN  hash_witnesses(0, total_witnesses)
        \o [k \in 1..total_witnesses |-> Op("OP_FROMALTSTACK")]
        \o [k \in 1..(total_witnesses - 1) |-> Op("OP_CAT")]
        \o <<Op("OP_SHA256")>>

\* one pass of the loop of serialize_outputs
serialize_output(output_base) ==
    <<verify_binding_op_n(output_base + 1 + 1), Op("OP_PICK"),
      verify_binding_op_n(output_base + 0 + 2), Op("OP_PICK"),
      Op("OP_SWAP")>>
    \o push_bytes(<<32>>)
    \o <<Op("OP_CAT"), Op("OP_CAT"), Op("OP_CAT")>>

RECURSIVE serialize_outputs_from(_, _)
serialize_outputs_from(i, num_app_outputs) ==
    IF i >= num_app_outputs THEN <<>>
    ELSE serialize_output(3 + (num_app_outputs - 1 - i) * 3)
         \o serialize_outputs_from(i + 1, num_app_outputs)

\* VerifyBinding::serialize_outputs
serialize_outputs(num_app_outputs) ==
    <<small_int(0)>> \o serialize_outputs_from(0, num_app_outputs)

\* UniversalGuard::validate
UniversalGuard_validate(config) ==
    IF config.num_inputs = 0 THEN "At least one input required"
    ELSE IF config.num_inputs > 16 THEN "Too many inputs (max 16)"
    ELSE IF config.num_app_outputs > 16 THEN "Too many outputs (max 16)"
    ELSE "Ok"

\* ContractOutput::new
ContractOutput_new(contract, value) ==
    [value |-> value,
     script_pubkey |-> VerifierContract_locking_script(contract),
     state |-> contract.current_state]

\* ContractOutput::next_output
next_output(new_state, operator_pkh, value) ==
    ContractOutput_new(VerifierContract_new(operator_pkh, new_state), value)

\* ContractTransactionBuilder::build_output: the output, or the panic of
\* `step + 1` at u32::MAX in a build with overflow checks
build_output(self, value, checks) ==
    IF self.input_state.step = U32_MAX /\ checks
    THEN [status |-> "panic", output |-> <<>>]
    ELSE [status |-> "Ok",
          output |-> <<next_output(
              [transcript_hash |-> self.witness.next_transcript_hash,
               app_state_root |-> unwrap_or(self.witness.new_app_state,
                                            self.input_state.app_state_root),
               step |-> (self.input_state.step + 1) % (U32_MAX + 1)],
              self.operator_pkh, value)>>]

\* GuardBuilder::introspection
introspection == dup \o to_alt

\* GuardBuilder::paymaster_reconstruction
paymaster_reconstruction ==
    over \o <<Op("OP_3"), Op("OP_PICK")>> \o swap
    \o <<Op("OP_CAT"), Op("OP_SHA256"), Op("OP_SHA256")>>
    \o to_alt
    \o <<Op("OP_SIZE")>> \o push_number(40) \o <<Op("OP_SUB"), Op("OP_SPLIT"), Op("OP_NIP")>>
    \o push_number(32) \o <<Op("OP_SPLIT")>> \o drop
    \o from_alt \o <<Op("OP_EQUALVERIFY")>>
    \o drop

\* a binding step that moves AppBytes aside without looking at its size
paymaster_binding_unchecked == to_alt

\* GuardBuilder::paymaster_binding
paymaster_binding ==
    <<Op("OP_SIZE")>> \o push_number(32) \o <<Op("OP_GREATERTHAN")>> \o op_verify
    \o to_alt

\* GuardBuilder::ipa_verification
ipa_verification ==
    <<Op("OP_SIZE")>> \o push_number(128) \o <<Op("OP_GREATERTHAN")>> \o op_verify
    \o drop

\* GuardBuilder::cleanup
cleanup == from_alt \o drop \o from_alt \o drop \o <<Op("OP_TRUE")>>

\* Guard::universal
Guard_universal ==
    introspection \o paymaster_reconstruction \o paymaster_binding
    \o ipa_verification \o cleanup

\* the opcode bytes of the push scheme
Opcode(name) ==
    CASE name = "OP_0" -> 0
      [] name = "OP_PUSHDATA1" -> 76
      [] name = "OP_PUSHDATA2" -> 77
      [] name = "OP_PUSHDATA4" -> 78
      [] name = "OP_1" -> 81
      [] name = "OP_CHECKMULTISIG" -> 174

\* the low n bytes of len, little-endian: `(data.len() as uN).to_le_bytes()`
len_to_le_bytes(len, n) == [i \in 1..n |-> (len \div (256 ^ (i - 1))) % 256]

\* a push that switches to OP_PUSHDATA1 one byte late
push_bytes_vec_late_pushdata1(data) ==
    IF data = <<>> THEN <<Opcode("OP_0")>>
    ELSE IF Len(data) <= 76 THEN <<Len(data) % 256>> \o data
    ELSE IF Len(data) <= 255 THEN <<Opcode("OP_PUSHDATA1"), Len(data) % 256>> \o data
    ELSE IF Len(data) <= 65535
    THEN <<Opcode("OP_PUSHDATA2")>> \o len_to_le_bytes(Len(data), 2) \o data
    ELSE <<Opcode("OP_PUSHDATA4")>> \o len_to_le_bytes(Len(data), 4) \o data

\* push_bytes, as the bytes it returns
push_bytes_vec(data) ==
    IF data = <<>> THEN <<Opcode("OP_0")>>
    ELSE IF Len(data) <= 75 THEN <<Len(data) % 256>> \o data
    ELSE IF Len(data) <= 255 THEN <<Opcode("OP_PUSHDATA1"), Len(data) % 256>> \o data
    ELSE IF Len(data) <= 65535
    THEN <<Opcode("OP_PUSHDATA2")>> \o len_to_le_bytes(Len(data), 2) \o data
    ELSE <<Opcode("OP_PUSHDATA4")>> \o len_to_le_bytes(Len(data), 4) \o data

\* the interpreter's reading of a push at the start of a script: the data
\* it pushes, or a failure when the script is too short for it
decode_push(script) ==
    LET take(header, len) ==
            IF Len(script) < header + len THEN [ok |-> FALSE, data |-> <<>>]
            ELSE [ok |-> TRUE, data |-> SubSeq(script, header + 1, header + len)]
        le(from, n) ==
            IF n = 1 THEN script[from]
            ELSE IF n = 2 THEN script[from] + 256 * script[from + 1]
            ELSE script[from] + 256 * script[from + 1] + 65536 * script[from + 2]
                 + 16777216 * script[from + 3]
    IN  IF script = <<>> THEN [ok |-> FALSE, data |-> <<>>]
        ELSE IF script[1] = Opcode("OP_0") THEN take(1, 0)
        ELSE IF script[1] <= 75 THEN take(1, script[1])
        ELSE IF script[1] = Opcode("OP_PUSHDATA1")
        THEN IF Len(script) < 2 THEN [ok |-> FALSE, data |-> <<>>] ELSE take(2, le(2, 1))
        ELSE IF script[1] = Opcode("OP_PUSHDATA2")
        THEN IF Len(script) < 3 THEN [ok |-> FALSE, data |-> <<>>] ELSE take(3, le(2, 2))
        ELSE IF script[1] = Opcode("OP_PUSHDATA4")
        THEN IF Len(script) < 5 THEN [ok |-> FALSE, data |-> <<>>] ELSE take(5, le(2, 4))
        ELSE [ok |-> FALSE, data |-> <<>>]

\* push_number, as the bytes it returns: one opcode for 0..16, else a
\* length byte and the minimal little-endian number
push_number_vec(n) ==
    IF n = 0 THEN <<Opcode("OP_0")>>
    ELSE IF n <= 16 THEN <<80 + n>>
    ELSE IF n <= 127 THEN <<1, n>>
    ELSE IF n <= 32767 THEN <<2>> \o len_to_le_bytes(n, 2)
    ELSE IF n <= 8388607 THEN <<3>> \o len_to_le_bytes(n, 3)
    ELSE <<4>> \o len_to_le_bytes(n, 4)

\* the number of bytes an instruction occupies in the emitted script: a
\* data push carries 32 bytes per encoding (a digest is one encoding)
instruction_len(ins) ==
    IF ins.op = "PUSHNUM" THEN Len(push_number_vec(ins.data[1]))
    ELSE IF ins.op = "PUSH"
    THEN Len(push_bytes_vec([i \in 1..(IF ins.data # <<>> /\ ins.data[1] = -1
                                       THEN FIELD_BYTES
                                       ELSE FIELD_BYTES * Len(ins.data)) |-> 0]))
    ELSE 1

\* `.len()` of an emitted script
RECURSIVE script_len(_)
script_len(script) ==
    IF script = <<>> THEN 0
    ELSE IF Len(script) = 1 THEN instruction_len(script[1])
    ELSE LET mid == Len(script) \div 2
         IN  script_len(SubSeq(script, 1, mid))
             + script_len(SubSeq(script, mid + 1, Len(script)))

estimate_init_size == script_len(init_constants)
estimate_full_round_size == script_len(generate_full_round_opt(0))
estimate_partial_round_size == script_len(generate_partial_round_opt(4))

\* an estimate that counts seven full rounds
estimate_poseidon_size_seven_full ==
    estimate_init_size + (7 * estimate_full_round_size) + (56 * estimate_partial_round_size)

\* estimate_poseidon_size
estimate_poseidon_size ==
    estimate_init_size + (8 * estimate_full_round_size) + (56 * estimate_partial_round_size)

\* estimate_witness_unlock_size
estimate_witness_unlock_size ==
    LET num_constants == 1 + 9 + 24 + 56
        state_and_expected == 4
    IN  (num_constants + state_and_expected) * 33

(***************************************************************************)
(* The script interpreter: one instruction on a main stack and a side      *)
(* stack, the top of each at the end of the sequence                       *)
(***************************************************************************)
IsNum(item) == Len(item) = 1 /\ item[1] >= 0
IsTrue(item) == \E i \in 1..Len(item) : item[i] # 0
Top(st) == st[Len(st)]
Pop(st, n) == SubSeq(st, 1, Len(st) - n)
\* the item n positions below the top
AtDepth(st, n) == st[Len(st) - n]
\* the stack without the item n positions below the top
RemoveAtDepth(st, n) ==
    SubSeq(st, 1, Len(st) - n - 1) \o SubSeq(st, Len(st) - n + 1, Len(st))

Failed(st, alt_st) == [ok |-> FALSE, stack |-> st, alt |-> alt_st]
Stepped(st, alt_st) == [ok |-> TRUE, stack |-> st, alt |-> alt_st]

\* the effect of one instruction; ok is FALSE when the instruction aborts
\* the program (too few items, an operand that is no number, a zero
\* divisor, a failed verification)
Exec(ins, st, alt_st) ==
    LET n == Len(st) IN
    CASE ins.op \in {"PUSH", "PUSHNUM"} -> Stepped(Append(st, ins.data), alt_st)
      [] ins.op = "OP_DUP" ->
            IF n < 1 THEN Failed(st, alt_st)
            ELSE Stepped(Append(st, Top(st)), alt_st)
      [] ins.op = "OP_DROP" ->
            IF n < 1 THEN Failed(st, alt_st)
            ELSE Stepped(Pop(st, 1), alt_st)
      [] ins.op = "OP_SWAP" ->
            IF n < 2 THEN Failed(st, alt_st)
            ELSE Stepped(Pop(st, 2) \o <<st[n], st[n - 1]>>, alt_st)
      [] ins.op = "OP_TOALTSTACK" ->
            IF n < 1 THEN Failed(st, alt_st)
            ELSE Stepped(Pop(st, 1), Append(alt_st, Top(st)))
      [] ins.op = "OP_FROMALTSTACK" ->
            IF Len(alt_st) < 1 THEN Failed(st, alt_st)
            ELSE Stepped(Append(st, Top(alt_st)), Pop(alt_st, 1))
      [] ins.op \in {"OP_PICK", "OP_ROLL"} ->
            IF n < 1 \/ ~IsNum(Top(st)) THEN Failed(st, alt_st)
            ELSE LET d == Top(st)[1]
                     rest == Pop(st, 1)
                 IN  IF d >= Len(rest) THEN Failed(st, alt_st)
                     ELSE IF ins.op = "OP_PICK"
                          THEN Stepped(Append(rest, AtDepth(rest, d)), alt_st)
                          ELSE Stepped(Append(RemoveAtDepth(rest, d), AtDepth(rest, d)),
                                       alt_st)
      [] ins.op \in {"OP_ADD", "OP_MUL", "OP_MOD"} ->
            IF n < 2 \/ ~IsNum(st[n]) \/ ~IsNum(st[n - 1]) THEN Failed(st, alt_st)
            ELSE LET a == st[n - 1][1]
                     b == st[n][1]
                 IN  IF ins.op = "OP_ADD" THEN Stepped(Append(Pop(st, 2), <<a + b>>), alt_st)
                     ELSE IF ins.op = "OP_MUL"
                          THEN Stepped(Append(Pop(st, 2), <<a * b>>), alt_st)
                     ELSE IF b = 0 THEN Failed(st, alt_st)
                     ELSE Stepped(Append(Pop(st, 2), <<a % b>>), alt_st)
      [] ins.op = "OP_SHA256" ->
            IF n < 1 THEN Failed(st, alt_st)
            ELSE Stepped(Append(Pop(st, 1), Sha256(Top(st))), alt_st)
      [] ins.op = "OP_OVER" ->
            IF n < 2 THEN Failed(st, alt_st)
            ELSE Stepped(Append(st, st[n - 1]), alt_st)
      [] ins.op = "OP_HASH160" ->
            IF n < 1 THEN Failed(st, alt_st)
            ELSE Stepped(Append(Pop(st, 1), Hash160(Top(st))), alt_st)
      [] ins.op = "OP_LESSTHAN" ->
            IF n < 2 \/ ~IsNum(st[n]) \/ ~IsNum(st[n - 1]) THEN Failed(st, alt_st)
            ELSE Stepped(Append(Pop(st, 2),
                                IF st[n - 1][1] < st[n][1] THEN <<1>> ELSE <<0>>),
                         alt_st)
      [] ins.op = "OP_VERIFY" ->
            IF n < 1 \/ ~IsTrue(Top(st)) THEN Failed(st, alt_st)
            ELSE Stepped(Pop(st, 1), alt_st)
      [] ins.op = "OP_CHECKSIG" ->
            IF n < 2 THEN Failed(st, alt_st)
            ELSE Stepped(Append(Pop(st, 2),
                                IF ValidSignature(st[n - 1], st[n]) THEN <<1>> ELSE <<0>>),
                         alt_st)
      [] ins.op \in {"OP_TRUE", "OP_3"} ->
            Stepped(Append(st, IF ins.op = "OP_TRUE" THEN <<1>> ELSE <<3>>), alt_st)
      [] ins.op = "OP_CAT" ->
            IF n < 2 THEN Failed(st, alt_st)
            ELSE Stepped(Append(Pop(st, 2), st[n - 1] \o st[n]), alt_st)
      [] ins.op = "OP_SIZE" ->
            IF n < 1 THEN Failed(st, alt_st)
            ELSE Stepped(Append(st, <<Len(Top(st))>>), alt_st)
      [] ins.op = "OP_NIP" ->
            IF n < 2 THEN Failed(st, alt_st)
            ELSE Stepped(Append(Pop(st, 2), st[n]), alt_st)
      [] ins.op = "OP_SPLIT" ->
            IF n < 2 \/ ~IsNum(st[n]) THEN Failed(st, alt_st)
            ELSE LET x == st[n - 1]
                     at == st[n][1]
                 IN  IF at > Len(x) THEN Failed(st, alt_st)
                     ELSE Stepped(Pop(st, 2)
                                  \o <<SubSeq(x, 1, at), SubSeq(x, at + 1, Len(x))>>,
                                  alt_st)
      [] ins.op \in {"OP_SUB", "OP_GREATERTHAN"} ->
            IF n < 2 \/ ~IsNum(st[n]) \/ ~IsNum(st[n - 1]) THEN Failed(st, alt_st)
            ELSE LET a == st[n - 1][1]
                     b == st[n][1]
                 IN  Stepped(Append(Pop(st, 2),
                                    IF ins.op = "OP_SUB" THEN <<a - b>>
                                    ELSE IF a > b THEN <<1>> ELSE <<0>>),
                             alt_st)
      [] ins.op = "OP_EQUALVERIFY" ->
            IF n < 2 \/ st[n] # st[n - 1] THEN Failed(st, alt_st)
            ELSE Stepped(Pop(st, 2), alt_st)
      [] OTHER -> Failed(st, alt_st)

(***************************************************************************)
(* The inputs the contract is driven with                                  *)
(***************************************************************************)
\* the application state roots a fresh contract is created with
InitialRoots == {2}
\* public input lists, cross-term lists, scalars and optional values, each
\* with canonical and non-canonical encodings
PublicInputChoices == {<<1>>, <<PallasModulus>>}
LTermChoices == {<<>>, << <<PallasModulus, 2>> >>}
RTermChoices == {<<>>, << <<3, EncMax>> >>}
ScalarChoices == {2, PallasModulus}
OptionalScalarChoices == {None, Some(EncMax)}
AppStateChoices == {None, Some(4), Some(PallasModulus)}

IPAProofComponentsSet ==
    [l_commitments : LTermChoices, r_commitments : RTermChoices,
     a : ScalarChoices, b : OptionalScalarChoices]

IPAStepWitnessSet ==
    [public_inputs : PublicInputChoices, l_terms : LTermChoices,
     r_terms : RTermChoices, a_scalar : ScalarChoices,
     b_scalar : OptionalScalarChoices, new_app_state : AppStateChoices,
     next_transcript_hash : FieldElement]

(***************************************************************************)
(* State                                                                   *)
(***************************************************************************)
VARIABLES
    \* the contract
    overflow_checks, \* whether the build checks integer overflow
    current_state,   \* VerifierContract.current_state
    pending,         \* the witness built for the next step: <<>> or <<w>>
    generated,       \* how generate_ipa_witness ended, when it was the builder
    result,          \* result of the last apply_transition call
    accepted,        \* number of accepted apply_transition calls
    last_accepted,   \* next_transcript_hash of the last accepted witness
    \* the partial-round schedules
    perm_in,         \* the initial state (s0, s1, s2)
    fused_out,       \* <<>>, or <<state after the fused schedule>>
    textbook_out,    \* <<>>, or <<state after the textbook schedule>>
    \* a spend of the witness-pattern output
    scenario,        \* what the unlocking side supplies
    committed,       \* <<>>, or <<the byte string the baked-in hash commits to>>
    vm_phase,        \* "create", "unlock", "lock" or "done"
    pc,              \* index of the next instruction of the running program
    stack,           \* main stack
    alt,             \* side stack
    vm_status,       \* "running", "accepted", "finished" or "failed"
    \* one call of a routine and of its inverse or counterpart
    codec_call,      \* <<>>, or the routine called and its argument
    codec_bytes,     \* <<>>, or <<what the first routine produced>>
    codec_ret        \* <<>>, or <<what the second routine returned>>

accVars == <<overflow_checks, current_state, pending, generated, result, accepted, last_accepted>>
fusionVars == <<perm_in, fused_out, textbook_out>>
vmVars == <<scenario, committed, vm_phase, pc, stack, alt, vm_status>>
codecVars == <<codec_call, codec_bytes, codec_ret>>
vars == <<accVars, fusionVars, vmVars, codecVars>>

AccIdle ==
    /\ overflow_checks = FALSE
    /\ current_state = IPAAccumulator_new(0)
    /\ pending = <<>>
    /\ generated = "none"
    /\ result = "none"
    /\ accepted = 0
    /\ last_accepted = 0

FusionIdle ==
    /\ perm_in = <<0, 0, 0>>
    /\ fused_out = <<>>
    /\ textbook_out = <<>>

VmIdle ==
    /\ scenario = <<>>
    /\ committed = <<>>
    /\ vm_phase = "done"
    /\ pc = 1
    /\ stack = <<>>
    /\ alt = <<>>
    /\ vm_status = "running"

CodecIdle ==
    /\ codec_call = <<>>
    /\ codec_bytes = <<>>
    /\ codec_ret = <<>>

(***************************************************************************)
(* The contract as a state machine                                         *)
(***************************************************************************)
AccInit ==
    /\ overflow_checks \in BOOLEAN
    /\ \E root \in InitialRoots : current_state = IPAAccumulator_new(root)
    /\ pending = <<>>
    /\ generated = "none"
    /\ result = "none"
    /\ accepted = 0
    /\ last_accepted = 0

Init == AccInit /\ FusionIdle /\ VmIdle /\ CodecIdle

\* a caller builds an arbitrary witness off-chain
ConstructWitness ==
    /\ pending = <<>>
    /\ accepted < MaxAccepted
    /\ \E w \in IPAStepWitnessSet : pending' = <<w>>
    /\ generated' = "none"
    /\ UNCHANGED <<overflow_checks, current_state, result, accepted, last_accepted, fusionVars, vmVars, codecVars>>

\* the prover runs generate_ipa_witness against the contract's transcript
GenerateWitness ==
    /\ pending = <<>>
    /\ accepted < MaxAccepted
    /\ \E pis \in PublicInputChoices, proof \in IPAProofComponentsSet,
          nas \in AppStateChoices :
          LET g == generate_ipa_witness(current_state.transcript_hash, pis, proof, nas)
          IN  /\ pending' = g.witness
              /\ generated' = IF g.ok THEN "Ok" ELSE g.err
    /\ UNCHANGED <<overflow_checks, current_state, result, accepted, last_accepted, fusionVars, vmVars, codecVars>>

\* apply_transition consumes the pending witness; on Ok the returned
\* contract replaces the current one
ApplyTransition ==
    /\ pending # <<>>
    /\ LET r == apply_transition(current_state, pending[1], overflow_checks)
       IN  /\ current_state' = r.state
           /\ result' = IF r.ok THEN "Ok" ELSE r.err
           /\ accepted' = IF r.ok THEN accepted + 1 ELSE accepted
           /\ last_accepted' = IF r.ok THEN pending[1].next_transcript_hash
                               ELSE last_accepted
    /\ pending' = <<>>
    /\ generated' = "none"
    /\ UNCHANGED <<overflow_checks, fusionVars, vmVars, codecVars>>

(***************************************************************************)
(* The partial rounds 4..59 under both schedules                           *)
(***************************************************************************)
InitFusion ==
    /\ AccIdle
    /\ CodecIdle
    /\ VmIdle
    /\ perm_in \in Fp \X Fp \X Fp
    /\ fused_out = <<>>
    /\ textbook_out = <<>>

\* rounds 4..59 with the fused constants and the sparse mixing
RunFusedSchedule ==
    /\ fused_out = <<>>
    /\ fused_out' = <<FusedPartialRounds(FusedPoseidonConstants_compute,
                                         4, 4 + PARTIAL_ROUNDS, perm_in)>>
    /\ UNCHANGED <<perm_in, textbook_out, accVars, vmVars, codecVars>>

\* rounds 4..59 with all three constants and the dense mixing
RunTextbookSchedule ==
    /\ textbook_out = <<>>
    /\ textbook_out' = <<TextbookRounds(4, 4 + PARTIAL_ROUNDS, perm_in)>>
    /\ UNCHANGED <<perm_in, fused_out, accVars, vmVars, codecVars>>

NextFusion == RunFusedSchedule \/ RunTextbookSchedule

SpecFusion == InitFusion /\ [][NextFusion]_vars

(***************************************************************************)
(* Spending the witness-pattern output: the locking script is created,     *)
(* then the unlocking script runs, then the locking script runs on the     *)
(* stack the unlocking script left                                         *)
(***************************************************************************)
\* the constants a genuine unlocking script pushes, one item each:
\* p, the matrix, the full-round constants, the fused partial constants
GenuineConstants ==
    PALLAS_MODULUS_BYTES \o to_witness_bytes(FusedPoseidonConstants_compute)

\* positions of the modulus, a matrix entry, a full-round constant and two
\* fused partial constants in that list
TamperPositions == {1, 2, 11, 35, Len(GenuineConstants)}
Tampered(bytes, k) == [bytes EXCEPT ![k] = (@ + 1) % (EncMax + 1)]

SuppliedConstants ==
    {GenuineConstants}
    \cup {Tampered(GenuineConstants, k) : k \in TamperPositions}
    \cup {[k \in 1..Len(GenuineConstants) |-> c] : c \in {1, 3}}

\* the single item pushed above the constants, if any
SuppliedBlobs ==
    {<<>>,
     <<to_witness_bytes(FusedPoseidonConstants_compute)>>,
     <<Tampered(to_witness_bytes(FusedPoseidonConstants_compute), 1)>>,
     <<GenuineConstants>>}

InitialStates == {<<0, 0, 0>>, <<1, 2, 3>>}
ExpectedChoices(state) ==
    {PoseidonPermutation(state)[1], state[1], (state[1] + 1) % PallasModulus}

\* an unlocking script written by hand: the constants, one push each, then
\* an optional blob, then the state and the expected digest
custom_unlocking_script(consts, blob, state, expected) ==
    push_each(consts)
    \o (IF blob = <<>> THEN <<>> ELSE push_bytes(blob[1]))
    \o push_bytes(<<state[1]>>) \o push_bytes(<<state[2]>>)
    \o push_bytes(<<state[3]>>) \o push_bytes(<<expected>>)

Scenarios ==
    {[genuine |-> g, consts |-> c, blob |-> b, state |-> s, expected |-> e] :
        g \in {FALSE}, c \in SuppliedConstants, b \in SuppliedBlobs,
        s \in InitialStates, e \in Fp}
    \cup {[genuine |-> g, consts |-> c, blob |-> b, state |-> s, expected |-> e] :
        g \in {TRUE}, c \in {GenuineConstants}, b \in {<<>>},
        s \in InitialStates, e \in Fp}

UnlockingScript(scn) ==
    IF scn.genuine THEN generate_witness_unlocking_script(scn.state, scn.expected)
    ELSE custom_unlocking_script(scn.consts, scn.blob, scn.state, scn.expected)

InitScript ==
    /\ AccIdle
    /\ CodecIdle
    /\ FusionIdle
    /\ scenario \in {scn \in Scenarios : scn.expected \in ExpectedChoices(scn.state)}
    /\ committed = <<>>
    /\ vm_phase = "create"
    /\ pc = 1
    /\ stack = <<>>
    /\ alt = <<>>
    /\ vm_status = "running"

\* the output is created: get_constants_hash hashes to_witness_bytes of the
\* computed constants and the digest is baked into the locking script
CreateOutput ==
    /\ vm_phase = "create"
    /\ committed' = <<to_witness_bytes(FusedPoseidonConstants_compute)>>
    /\ vm_phase' = "unlock"
    /\ UNCHANGED <<scenario, pc, stack, alt, vm_status, accVars, fusionVars, codecVars>>

\* one instruction of the unlocking script
StepUnlocking ==
    /\ vm_phase = "unlock"
    /\ vm_status = "running"
    /\ pc <= Len(UnlockingScript(scenario))
    /\ LET r == Exec(UnlockingScript(scenario)[pc], stack, alt)
       IN  /\ stack' = r.stack
           /\ alt' = r.alt
           /\ vm_status' = IF r.ok THEN "running" ELSE "failed"
    /\ pc' = pc + 1
    /\ UNCHANGED <<scenario, committed, vm_phase, accVars, fusionVars, codecVars>>

\* the unlocking script is done: the locking script starts on its main
\* stack, with an empty side stack
BeginLocking ==
    /\ vm_phase = "unlock"
    /\ vm_status = "running"
    /\ pc > Len(UnlockingScript(scenario))
    /\ vm_phase' = "lock"
    /\ pc' = 1
    /\ alt' = <<>>
    /\ UNCHANGED <<scenario, committed, stack, vm_status, accVars, fusionVars, codecVars>>

\* one instruction of the locking script; after the last one the spend is
\* accepted when the top of the main stack is true
StepLocking ==
    /\ vm_phase = "lock"
    /\ vm_status = "running"
    /\ pc <= Len(generate_witness_locking_script)
    /\ LET r == Exec(generate_witness_locking_script[pc], stack, alt)
           last == pc = Len(generate_witness_locking_script)
       IN  /\ stack' = r.stack
           /\ alt' = r.alt
           /\ vm_status' =
                  IF ~r.ok THEN "failed"
                  ELSE IF ~last THEN "running"
                  ELSE IF r.stack # <<>> /\ IsTrue(Top(r.stack)) THEN "accepted"
                  ELSE "failed"
           /\ vm_phase' = IF r.ok /\ ~last THEN "lock" ELSE "done"
    /\ pc' = pc + 1
    /\ UNCHANGED <<scenario, committed, accVars, fusionVars, codecVars>>

NextScript == CreateOutput \/ StepUnlocking \/ BeginLocking \/ StepLocking

SpecScript == InitScript /\ [][NextScript]_vars

(***************************************************************************)
(* One script fragment run on the stack its generator documents            *)
(***************************************************************************)
\* one stack item per field element of a list
items(elems) == [i \in 1..Len(elems) |-> <<fp_to_bytes(elems[i])>>]

\* what init_constants leaves on the stack: p, then the matrix row-major
EmbeddedConstants == <<PALLAS_MODULUS_BYTES>> \o items(mds_elems(FusedPoseidonConstants_compute))

\* what the witness unlocking script leaves below the state: p, the
\* matrix, the full-round constants, the fused partial constants
WitnessConstants == items(GenuineConstants)

\* a stack whose top is x, with p at depth d and other numbers elsewhere
SboxStack(d, x) ==
    << <<PallasModulus + 3>>, <<PallasModulus + 4>> >>
    \o <<PALLAS_MODULUS_BYTES>>
    \o [i \in 1..(d - 1) |-> <<PallasModulus + 4 + i>>]
    \o << <<x>> >>

FragmentStates == {<<0, 0, 0>>, <<1, 2, 3>>, <<6, 5, 4>>}
FullRoundChoices == {0, 1, 2, 3, 60, 61, 62, 63}
PartialRoundChoices == {4, 5, 31, 59}
SboxDepths == 1..4

\* spends of a contract output by its operator: the builder holds the
\* contract's state, a witness, the operator's signature and public key
HonestBuilders ==
    {[input_state |-> [transcript_hash |-> 3, app_state_root |-> 2, step |-> 1],
      witness |-> [public_inputs |-> pis, l_terms |-> SubSeq(<< <<1, 2>> >>, 1, rounds),
                   r_terms |-> SubSeq(<< <<3, 4>> >>, 1, rounds),
                   a_scalar |-> 3, b_scalar |-> b, new_app_state |-> None,
                   next_transcript_hash |-> 6],
      operator_signature |-> <<48, 69, 2>>, operator_pubkey |-> <<3, 17>>] :
        pis \in {<<>>, <<1>>}, rounds \in 0..1, b \in {None, Some(4)}}

\* the contract the builder spends
SpentContract(builder) ==
    VerifierContract_new(Hash160(builder.operator_pubkey), builder.input_state)

\* the unlocking script followed by the locking script it spends
SpendProgram(builder) ==
    build_unlocking_script(builder) \o VerifierContract_locking_script(SpentContract(builder))

\* state elements an unlocking script may supply: canonical ones, and ones
\* with an element that is p or greater
SuppliedStates ==
    {<<1, 2, 3>>, <<1, 2, PallasModulus>>, <<1, EncMax, 3>>, <<PallasModulus, 2, 3>>}

\* the stack an unlocking script leaves for the hardened verification: the
\* constants one item each, the constants blob, the state, the expected
\* digest
SuppliedStack(state, expected) ==
    WitnessConstants \o <<to_witness_bytes(FusedPoseidonConstants_compute)>>
    \o items(state) \o << <<expected>> >>

\* byte strings of a given length
Bytes(n, seed) == [i \in 1..n |-> (i * seed) % 256]

\* the digest the guard recomputes from the two output strings
HashOutputs(app, change) == Sha256(Sha256(app \o change))

\* preimages for a pair of output strings: the digest at bytes len-40 ..
\* len-8 behind a prefix of 0 or 10 bytes, that digest with its first or
\* last cell altered, the digest at the very end, and a preimage of 39 bytes
Preimages(app, change) ==
    LET h == HashOutputs(app, change)
    IN  {Bytes(k, 5) \o h \o Bytes(8, 7) : k \in {0, 10}}
        \cup {Bytes(10, 5) \o [h EXCEPT ![1] = 0] \o Bytes(8, 7),
              Bytes(10, 5) \o [h EXCEPT ![32] = @ + 1] \o Bytes(8, 7),
              Bytes(18, 5) \o h,
              Bytes(39, 5)}

GuardSpends ==
    UNION {{[kind |-> "guard", round |-> 0, state |-> <<0, 0, 0>>, depth |-> 0,
             proof |-> Bytes(pl, 3), app |-> Bytes(al, 11), change |-> Bytes(cl, 13),
             preimage |-> pre] : pre \in Preimages(Bytes(al, 11), Bytes(cl, 13))} :
           pl \in {128, 129}, al \in {32, 33}, cl \in {0, 5}}

Fragments ==
    {[kind |-> k, round |-> r, state |-> st, depth |-> 0] :
        k \in {"full"}, r \in FullRoundChoices, st \in FragmentStates}
    \cup {[kind |-> k, round |-> r, state |-> st, depth |-> 0] :
        k \in {"partial", "wpartial"}, r \in PartialRoundChoices, st \in FragmentStates}
    \cup {[kind |-> k, round |-> r, state |-> st, depth |-> 0] :
        k \in {"wfull"}, r \in FullRoundChoices, st \in FragmentStates}
    \cup {[kind |-> k, round |-> 0, state |-> st, depth |-> 0] :
        k \in {"dense", "sparse"}, st \in FragmentStates \cup {<<1, 0, 0>>, <<0, 0, 1>>}}
    \cup {[kind |-> k, round |-> 0, state |-> <<x, 0, 0>>, depth |-> d] :
        k \in {"sbox"}, x \in Fp, d \in SboxDepths}
    \cup {[kind |-> "secure", round |-> 0, state |-> st, depth |-> 0,
           expected |-> e] : st \in SuppliedStates, e \in {0, PallasModulus, EncMax}}
    \cup GuardSpends
    \cup {[kind |-> "locking", round |-> 0, state |-> <<0, 0, 0>>, depth |-> 0,
           builder |-> b] : b \in HonestBuilders}

FragmentProgram(frag) ==
    CASE frag.kind = "full" -> generate_full_round_opt(frag.round)
      [] frag.kind = "partial" -> generate_partial_round_opt(frag.round)
      [] frag.kind = "wpartial" -> generate_witness_partial_round(frag.round)
      [] frag.kind = "wfull" -> generate_witness_full_round(frag.round)
      [] frag.kind = "dense" -> generate_dense_mds
      [] frag.kind = "sparse" -> generate_sparse_mds
      [] frag.kind = "sbox" -> sbox_p_at(frag.depth)
      [] frag.kind = "locking" -> SpendProgram(frag.builder)
      [] frag.kind = "guard" -> Guard_universal
      [] frag.kind = "secure" -> generate_secure_witness_verification

FragmentStack(frag) ==
    CASE frag.kind \in {"full", "partial", "dense", "sparse"} ->
             EmbeddedConstants \o items(frag.state)
      [] frag.kind \in {"wpartial", "wfull"} -> WitnessConstants \o items(frag.state)
      [] frag.kind = "sbox" -> SboxStack(frag.depth, frag.state[1])
      [] frag.kind = "locking" -> <<>>
      [] frag.kind = "guard" ->
             <<frag.proof, frag.app, frag.change, frag.preimage>>
      [] frag.kind = "secure" -> SuppliedStack(frag.state, frag.expected)

InitFragment ==
    /\ AccIdle
    /\ CodecIdle
    /\ FusionIdle
    /\ scenario \in Fragments
    /\ committed = <<>>
    /\ vm_phase = "fragment"
    /\ pc = 1
    /\ stack = FragmentStack(scenario)
    /\ alt = <<>>
    /\ vm_status = "running"

\* one instruction of the fragment; after the last one it has finished
StepFragment ==
    /\ vm_phase = "fragment"
    /\ vm_status = "running"
    /\ pc <= Len(FragmentProgram(scenario))
    /\ LET r == Exec(FragmentProgram(scenario)[pc], stack, alt)
           last == pc = Len(FragmentProgram(scenario))
       IN  /\ stack' = r.stack
           /\ alt' = r.alt
           /\ vm_status' = IF ~r.ok THEN "failed"
                           ELSE IF last THEN "finished" ELSE "running"
           /\ vm_phase' = IF r.ok /\ ~last THEN "fragment" ELSE "done"
    /\ pc' = pc + 1
    /\ UNCHANGED <<scenario, committed, accVars, fusionVars, codecVars>>

NextFragment == StepFragment

SpecFragment == InitFragment /\ [][NextFragment]_vars

(***************************************************************************)
(* A byte layout written by one routine and read back by its inverse,      *)
(* from the whole output or from a truncated one                           *)
(***************************************************************************)
\* witnesses with N public inputs and R left and R right terms
CodecWitnesses ==
    {[public_inputs |-> pis, l_terms |-> SubSeq(<< <<1, 2>>, <<EncMax, 0>> >>, 1, rounds),
      r_terms |-> SubSeq(<< <<3, 4>>, <<5, PallasModulus>> >>, 1, rounds),
      a_scalar |-> 3, b_scalar |-> b, new_app_state |-> nas,
      next_transcript_hash |-> 6] :
        pis \in {<<>>, <<1>>, <<EncMax, 2>>}, rounds \in 0..2,
        b \in {None, Some(4)}, nas \in {None, Some(5)}}

CodecAccumulators ==
    [transcript_hash : {0, 3, EncMax}, app_state_root : {2, PallasModulus}, step : 0..U32_MAX]

\* one step's transcript: the previous digest, the public inputs, a proof
CodecTranscripts ==
    {[prev |-> t, public_inputs |-> w.public_inputs,
      proof |-> [l_commitments |-> w.l_terms, r_commitments |-> w.r_terms,
                 a |-> w.a_scalar, b |-> w.b_scalar]] :
        t \in {0, 5, EncMax}, w \in {x \in CodecWitnesses : x.new_app_state = None}}

\* arguments of generate_ipa_witness: the cross-term lists have 0..2
\* entries each, independently
CodecProofs ==
    {[prev |-> 3, public_inputs |-> pis, new_app_state |-> nas,
      proof |-> [l_commitments |-> SubSeq(<< <<1, 2>>, <<EncMax, 0>> >>, 1, nl),
                 r_commitments |-> SubSeq(<< <<3, 4>>, <<5, PallasModulus>> >>, 1, nr),
                 a |-> 3, b |-> b]] :
        pis \in {<<>>, <<1>>}, nas \in {None, Some(5)}, nl \in 0..2, nr \in 0..2,
        b \in {None, Some(4)}}

\* a ContractTransactionBuilder: the spent output's state, the witness,
\* and the authorization data (empty until with_signature is called)
CodecBuilders ==
    {[input_state |-> [transcript_hash |-> 3, app_state_root |-> 2, step |-> 1],
      witness |-> w, operator_signature |-> sig[1], operator_pubkey |-> sig[2]] :
        w \in CodecWitnesses, sig \in {<< <<>>, <<>> >>, << <<48, 69, 2>>, <<3, 17>> >>}}

\* byte strings of the lengths at which the push scheme changes
PushLengths == {0, 1, 2, 32, 68, 75, 76, 77, 255, 256, 257, 2848, 65535, 65536}
PushData(n) == [i \in 1..n |-> (i * 7) % 256]

\* an estimator and the arguments of the generator it estimates
CodecEstimates ==
    {[of |-> "generate_poseidon_script_opt", state |-> <<0, 0, 0>>, expected |-> 0],
     [of |-> "to_witness_bytes", state |-> <<0, 0, 0>>, expected |-> 0]}
    \cup {[of |-> "generate_witness_unlocking_script", state |-> st, expected |-> e] :
             st \in FragmentStates, e \in Fp}

\* u8 addition and subtraction: the byte, and whether the exact result left
\* the range of a byte
u8_add(a, b) == [value |-> (a + b) % 256, overflow |-> a + b > 255]
u8_sub(a, b) == [value |-> (a - b) % 256, overflow |-> a < b]

\* `len as u8`
as_u8(n) == n % 256

\* MultisigTail::new without the comparison of threshold and key count
MultisigTail_new_any_threshold(threshold, pubkeys) ==
    IF ~(threshold >= 1 /\ threshold <= 16) THEN None
    ELSE IF ~(Len(pubkeys) >= 1 /\ Len(pubkeys) <= 16) THEN None
    ELSE Some([threshold |-> threshold, pubkeys |-> pubkeys])

\* MultisigTail::new: None is the panic of a failed assertion
MultisigTail_new(threshold, pubkeys) ==
    IF ~(threshold >= 1 /\ threshold <= 16) THEN None
    ELSE IF ~(Len(pubkeys) >= 1 /\ Len(pubkeys) <= 16) THEN None
    ELSE IF ~(threshold <= as_u8(Len(pubkeys))) THEN None
    ELSE Some([threshold |-> threshold, pubkeys |-> pubkeys])

\* the pushes of the keys, in the order of the vector
RECURSIVE push_pubkeys(_)
push_pubkeys(pubkeys) ==
    IF pubkeys = <<>> THEN <<>>
    ELSE <<33>> \o Head(pubkeys) \o push_pubkeys(Tail(pubkeys))

\* MultisigTail::locking_script: the bytes, and whether a byte operation
\* overflowed
MultisigTail_locking_script(self) ==
    LET t1 == u8_add(Opcode("OP_1"), self.threshold)
        t2 == u8_sub(t1.value, 1)
        n1 == u8_add(Opcode("OP_1"), as_u8(Len(self.pubkeys)))
        n2 == u8_sub(n1.value, 1)
    IN  [script |-> <<t2.value>> \o push_pubkeys(self.pubkeys)
                    \o <<n2.value, Opcode("OP_CHECKMULTISIG")>>,
         overflow |-> t1.overflow \/ t2.overflow \/ n1.overflow \/ n2.overflow]

\* key vectors: n distinct 33-byte keys, ascending or descending
MultisigKeyCounts == {0, 1, 2, 3, 16, 17, 257}
MultisigThresholds == {0, 1, 2, 3, 16, 17, 255}
MultisigKeys(n, order) ==
    [j \in 1..n |->
        [i \in 1..33 |-> IF order = "asc" THEN j % 256 ELSE (n + 1 - j) % 256]]
MultisigCalls ==
    {[threshold |-> t, pubkeys |-> MultisigKeys(n, o)] :
        t \in MultisigThresholds, n \in MultisigKeyCounts, o \in {"asc", "desc"}}

\* invocations of the generators and of the constants hash
GeneratorCalls ==
    {[name |-> "witness_hash", round |-> 0, state |-> <<0, 0, 0>>, expected |-> 0],
     [name |-> "generate_witness_locking_script", round |-> 0,
      state |-> <<0, 0, 0>>, expected |-> 0]}
    \cup {[name |-> "generate_full_round_opt", round |-> r,
           state |-> <<0, 0, 0>>, expected |-> 0] : r \in {0, 63}}
    \cup {[name |-> "generate_partial_round_opt", round |-> r,
           state |-> <<0, 0, 0>>, expected |-> 0] : r \in {4, 59}}
    \cup {[name |-> "generate_witness_unlocking_script", round |-> 0,
           state |-> st, expected |-> e] :
             st \in {<<1, 2, 3>>, <<6, 5, 4>>}, e \in {0, 5}}

\* what the body of the generator appends to its buffer
emitted(g) ==
    CASE g.name = "witness_hash" ->
             witness_hash(FusedPoseidonConstants_compute)
      [] g.name = "generate_witness_locking_script" ->
             generate_witness_locking_script
      [] g.name = "generate_full_round_opt" -> generate_full_round_opt(g.round)
      [] g.name = "generate_partial_round_opt" ->
             generate_partial_round_opt(g.round)
      [] OTHER -> generate_witness_unlocking_script(g.state, g.expected)

\* one invocation: a fresh buffer, the body, the buffer returned
invoke(g, earlier) == OptimizedScriptBuilder_new(earlier) \o emitted(g)

\* 32-byte arrays: every encoding of the model, p and p + 1 among them,
\* and arrays whose integer is far above p
CodecEncodings ==
    {field_element_bytes(w) : w \in 0..EncMax}
    \cup {[i \in 1..FIELD_BYTES |-> IF i = k THEN 1 ELSE 0] : k \in {2, 4, FIELD_BYTES}}
    \cup {[i \in 1..FIELD_BYTES |-> 255]}

\* lists of 0..2 cross terms, and pairs of witnesses that have the same
\* number of common rounds, agree on those rounds and on every other field,
\* and differ in a term beyond them
TermLists ==
    {<<>>} \cup {<<t>> : t \in {<<1, 2>>, <<EncMax, 0>>}}
    \cup {<<t, u>> : t \in {<<1, 2>>, <<EncMax, 0>>}, u \in {<<3, 4>>, <<5, PallasModulus>>}}
common_rounds(w) == Min(Len(w.l_terms), Len(w.r_terms))
SurplusPairs ==
    {[first |-> [public_inputs |-> <<1>>, l_terms |-> p[1], r_terms |-> p[2],
                 a_scalar |-> 3, b_scalar |-> b, new_app_state |-> None,
                 next_transcript_hash |-> nth],
      second |-> [public_inputs |-> <<1>>, l_terms |-> p[3], r_terms |-> p[4],
                  a_scalar |-> 3, b_scalar |-> b, new_app_state |-> None,
                  next_transcript_hash |-> nth],
      state |-> [transcript_hash |-> 3, app_state_root |-> 2, step |-> 1]] :
        p \in {q \in TermLists \X TermLists \X TermLists \X TermLists :
                 LET k == Min(Len(q[1]), Len(q[2]))
                 IN  /\ Min(Len(q[3]), Len(q[4])) = k
                     /\ SubSeq(q[1], 1, k) = SubSeq(q[3], 1, k)
                     /\ SubSeq(q[2], 1, k) = SubSeq(q[4], 1, k)
                     /\ <<q[1], q[2]>> # <<q[3], q[4]>>},
        b \in {None, Some(4)}, nth \in Fp}

\* what the three readers of the rounds make of one witness
rounds_read(contract_state, w) ==
    [digest |-> compute_transcript_hash(w, contract_state.transcript_hash),
     bytes |-> WitnessSerializer_serialize(w),
     script |-> VerifierContract_unlocking_script(contract_state, w),
     accepted |-> verify(w, contract_state.transcript_hash)]

\* builders over accumulators at every step, with witnesses whose claimed
\* digest is right for some and wrong for others, in both kinds of build
OutputBuilders ==
    {[input_state |-> [transcript_hash |-> t, app_state_root |-> 2, step |-> n],
      witness |-> [w EXCEPT !.next_transcript_hash = h],
      operator_pkh |-> <<7, 7>>, checks |-> c] :
        t \in {0, 3}, n \in 0..U32_MAX, h \in Fp, c \in BOOLEAN,
        w \in {x \in CodecWitnesses : x.public_inputs = <<1>>}}

\* the number of bytes deserialize reads for a shape
bytes_read(n, rounds, has_b, has_app_state) ==
    32 * n + 128 * rounds + 32 + (IF has_b THEN 32 ELSE 0)
    + (IF has_app_state THEN 32 ELSE 0) + 32

\* inputs of deserialize: every shape with up to two public inputs and two
\* rounds, on inputs shorter than, exactly as long as and longer than what
\* the shape reads
\* an input of `len` bytes: every 32-byte block encodes a small integer
InputBytes(len) == [i \in 1..len |-> IF (i - 1) % 32 < 2 THEN (i * 11) % 256 ELSE 0]
DeserializeShapes == (0..2) \X (0..2) \X BOOLEAN \X BOOLEAN
DeserializeLengths(sh) ==
    {len \in {bytes_read(sh[1], sh[2], sh[3], sh[4]) + d :
                 d \in {-64, -33, -32, -1, 0, 1, 32, 100}} : len >= 0}
    \cup {0, 31, 32}
DeserializeInputs ==
    UNION {{[bytes |-> InputBytes(len), num_public_inputs |-> sh[1],
             num_rounds |-> sh[2], has_b |-> sh[3], has_app_state |-> sh[4]] :
               len \in DeserializeLengths(sh)} : sh \in DeserializeShapes}

\* guard configurations, inside and outside what validate accepts
GuardConfigs ==
    [num_inputs : {0, 1, 2, 3, 16, 17}, num_app_outputs : {0, 1, 2, 16, 17}]

CodecCalls ==
    {[routine |-> "WitnessSerializer", arg |-> w] : w \in CodecWitnesses}
    \cup {[routine |-> "IPAAccumulator", arg |-> a] : a \in CodecAccumulators}
    \cup {[routine |-> "Transcript", arg |-> t] : t \in CodecTranscripts}
    \cup {[routine |-> "Unlocking", arg |-> b] : b \in CodecBuilders}
    \cup {[routine |-> "push_bytes", arg |-> PushData(n)] : n \in PushLengths}
    \cup {[routine |-> "estimate", arg |-> e] : e \in CodecEstimates}
    \cup {[routine |-> "invoke", arg |-> [gen |-> g, between |-> h]] :
             g \in GeneratorCalls, h \in GeneratorCalls}
    \cup {[routine |-> "MultisigTail", arg |-> m] : m \in MultisigCalls}
    \cup {[routine |-> "permutation", arg |-> st] : st \in Fp \X Fp \X Fp}
    \cup {[routine |-> "generate_ipa_witness", arg |-> g] : g \in CodecProofs}
    \cup {[routine |-> "rounds", arg |-> sp] : sp \in SurplusPairs}
    \cup {[routine |-> "build_output", arg |-> b] : b \in OutputBuilders}
    \cup {[routine |-> "deserialize", arg |-> d] : d \in DeserializeInputs}
    \cup {[routine |-> "guard_engine", arg |-> c] : c \in GuardConfigs}
    \cup {[routine |-> "fp_to_bytes", arg |-> x] : x \in Fp}
    \cup {[routine |-> "bytes_to_fp", arg |-> b] : b \in CodecEncodings}
    \cup {[routine |-> r, arg |-> <<>>] :
              r \in {"generate_poseidon_script_opt", "generate_witness_poseidon_logic",
                     "FusedPoseidonConstants::compute"}}

InitCodec ==
    /\ AccIdle
    /\ FusionIdle
    /\ VmIdle
    /\ codec_call \in CodecCalls
    /\ codec_bytes = <<>>
    /\ codec_ret = <<>>

\* serialize(w): the whole output is handed on
SerializeWitness ==
    /\ codec_call.routine = "WitnessSerializer"
    /\ codec_bytes = <<>>
    /\ codec_bytes' = <<WitnessSerializer_serialize(codec_call.arg)>>
    /\ UNCHANGED <<codec_call, codec_ret, accVars, fusionVars, vmVars>>

\* serialize(w), of which only a strict prefix is handed on
TruncateWitness ==
    /\ codec_call.routine = "WitnessSerializer"
    /\ codec_bytes = <<>>
    /\ \E k \in 0..(Len(WitnessSerializer_serialize(codec_call.arg)) - 1) :
           codec_bytes' = <<SubSeq(WitnessSerializer_serialize(codec_call.arg), 1, k)>>
    /\ UNCHANGED <<codec_call, codec_ret, accVars, fusionVars, vmVars>>

\* deserialize with the shape parameters of the witness
DeserializeWitness ==
    /\ codec_call.routine = "WitnessSerializer"
    /\ codec_bytes # <<>>
    /\ codec_ret = <<>>
    /\ codec_ret' = <<WitnessSerializer_deserialize(
                          codec_bytes[1],
                          Len(codec_call.arg.public_inputs),
                          Len(codec_call.arg.l_terms),
                          is_some(codec_call.arg.b_scalar),
                          is_some(codec_call.arg.new_app_state))>>
    /\ UNCHANGED <<codec_call, codec_bytes, accVars, fusionVars, vmVars>>

\* to_script_bytes(a): the whole record is handed on
ToScriptBytes ==
    /\ codec_call.routine = "IPAAccumulator"
    /\ codec_bytes = <<>>
    /\ codec_bytes' = <<IPAAccumulator_to_script_bytes(codec_call.arg)>>
    /\ UNCHANGED <<codec_call, codec_ret, accVars, fusionVars, vmVars>>

\* to_script_bytes(a), of which only a strict prefix is handed on
TruncateRecord ==
    /\ codec_call.routine = "IPAAccumulator"
    /\ codec_bytes = <<>>
    /\ \E k \in 0..(Len(IPAAccumulator_to_script_bytes(codec_call.arg)) - 1) :
           codec_bytes' = <<SubSeq(IPAAccumulator_to_script_bytes(codec_call.arg), 1, k)>>
    /\ UNCHANGED <<codec_call, codec_ret, accVars, fusionVars, vmVars>>

FromBytes ==
    /\ codec_call.routine = "IPAAccumulator"
    /\ codec_bytes # <<>>
    /\ codec_ret = <<>>
    /\ codec_ret' = <<IPAAccumulator_from_bytes(codec_bytes[1])>>
    /\ UNCHANGED <<codec_call, codec_bytes, accVars, fusionVars, vmVars>>

\* generate_ipa_witness builds its transcript; the absorbed elements are kept
GenerateIpaWitness ==
    /\ codec_call.routine = "Transcript"
    /\ codec_bytes = <<>>
    /\ validate(codec_call.arg.proof)
    /\ codec_bytes' = <<generate_ipa_witness_absorbed(
                            codec_call.arg.prev, codec_call.arg.public_inputs,
                            codec_call.arg.proof)>>
    /\ UNCHANGED <<codec_call, codec_ret, accVars, fusionVars, vmVars>>

\* compute_transcript_hash of the generated witness builds its input list
ComputeTranscriptHash ==
    /\ codec_call.routine = "Transcript"
    /\ codec_ret = <<>>
    /\ LET g == generate_ipa_witness(codec_call.arg.prev, codec_call.arg.public_inputs,
                                     codec_call.arg.proof, None)
       IN  /\ g.ok
           /\ codec_ret' = <<transcript_inputs(g.witness[1], codec_call.arg.prev)>>
    /\ UNCHANGED <<codec_call, codec_bytes, accVars, fusionVars, vmVars>>

\* VerifierContract::unlocking_script for the builder's contract
UnlockingScript_call ==
    /\ codec_call.routine = "Unlocking"
    /\ codec_bytes = <<>>
    /\ codec_bytes' = <<VerifierContract_unlocking_script(codec_call.arg.input_state,
                                                          codec_call.arg.witness)>>
    /\ UNCHANGED <<codec_call, codec_ret, accVars, fusionVars, vmVars>>

BuildUnlockingScript ==
    /\ codec_call.routine = "Unlocking"
    /\ codec_ret = <<>>
    /\ codec_ret' = <<build_unlocking_script(codec_call.arg)>>
    /\ UNCHANGED <<codec_call, codec_bytes, accVars, fusionVars, vmVars>>

PushBytes ==
    /\ codec_call.routine = "push_bytes"
    /\ codec_bytes = <<>>
    /\ codec_bytes' = <<push_bytes_vec(codec_call.arg)>>
    /\ UNCHANGED <<codec_call, codec_ret, accVars, fusionVars, vmVars>>

\* the interpreter reads the push back
DecodePush ==
    /\ codec_call.routine = "push_bytes"
    /\ codec_bytes # <<>>
    /\ codec_ret = <<>>
    /\ codec_ret' = <<decode_push(codec_bytes[1])>>
    /\ UNCHANGED <<codec_call, codec_bytes, accVars, fusionVars, vmVars>>

GeneratePoseidonScriptOpt ==
    /\ codec_call.routine = "generate_poseidon_script_opt"
    /\ codec_ret = <<>>
    /\ codec_ret' = <<generate_poseidon_script_opt>>
    /\ UNCHANGED <<codec_call, codec_bytes, accVars, fusionVars, vmVars>>

GenerateWitnessPoseidonLogic ==
    /\ codec_call.routine = "generate_witness_poseidon_logic"
    /\ codec_ret = <<>>
    /\ codec_ret' = <<generate_witness_poseidon_logic>>
    /\ UNCHANGED <<codec_call, codec_bytes, accVars, fusionVars, vmVars>>

ComputeFusedConstants ==
    /\ codec_call.routine = "FusedPoseidonConstants::compute"
    /\ codec_ret = <<>>
    /\ codec_ret' = <<FusedPoseidonConstants_compute>>
    /\ UNCHANGED <<codec_call, codec_bytes, accVars, fusionVars, vmVars>>

\* the generator runs; the length of its output is kept
GenerateForSize ==
    /\ codec_call.routine = "estimate"
    /\ codec_bytes = <<>>
    /\ codec_bytes' =
           <<CASE codec_call.arg.of = "generate_poseidon_script_opt" ->
                     script_len(generate_poseidon_script_opt)
               [] codec_call.arg.of = "generate_witness_unlocking_script" ->
                     script_len(generate_witness_unlocking_script(
                                    codec_call.arg.state, codec_call.arg.expected))
               [] codec_call.arg.of = "to_witness_bytes" ->
                     Len(extend_from_slices(
                             to_witness_bytes(FusedPoseidonConstants_compute)))>>
    /\ UNCHANGED <<codec_call, codec_ret, accVars, fusionVars, vmVars>>

\* the estimator of that generator runs
EstimateSize ==
    /\ codec_call.routine = "estimate"
    /\ codec_ret = <<>>
    /\ codec_ret' =
           <<CASE codec_call.arg.of = "generate_poseidon_script_opt" -> estimate_poseidon_size
               [] codec_call.arg.of = "generate_witness_unlocking_script" ->
                     estimate_witness_unlock_size
               [] codec_call.arg.of = "to_witness_bytes" -> witness_size>>
    /\ UNCHANGED <<codec_call, codec_bytes, accVars, fusionVars, vmVars>>

\* fp_to_bytes(x): the 32 bytes of the encoding
FpToBytes ==
    /\ codec_call.routine = "fp_to_bytes"
    /\ codec_bytes = <<>>
    /\ codec_bytes' = <<field_element_bytes(fp_to_bytes(codec_call.arg))>>
    /\ UNCHANGED <<codec_call, codec_ret, accVars, fusionVars, vmVars>>

\* bytes_to_fp of the bytes fp_to_bytes returned, or of a supplied array
BytesToFp ==
    /\ codec_ret = <<>>
    /\ \/ (codec_call.routine = "fp_to_bytes" /\ codec_bytes # <<>>
           /\ codec_ret' = <<bytes_to_fp(repr_value(codec_bytes[1]))>>)
       \/ (codec_call.routine = "bytes_to_fp"
           /\ codec_ret' = <<bytes_to_fp(repr_value(codec_call.arg))>>)
    /\ UNCHANGED <<codec_call, codec_bytes, accVars, fusionVars, vmVars>>

\* the first invocation of a generator
InvokeGenerator ==
    /\ codec_call.routine = "invoke"
    /\ codec_bytes = <<>>
    /\ codec_bytes' = <<invoke(codec_call.arg.gen, <<>>)>>
    /\ UNCHANGED <<codec_call, codec_ret, accVars, fusionVars, vmVars>>

\* another generator is invoked, then the first one again with the same
\* arguments
InvokeAgain ==
    /\ codec_call.routine = "invoke"
    /\ codec_bytes # <<>>
    /\ codec_ret = <<>>
    /\ LET other == invoke(codec_call.arg.between, codec_bytes)
       IN  codec_ret' = <<invoke(codec_call.arg.gen, codec_bytes \o <<other>>)>>
    /\ UNCHANGED <<codec_call, codec_bytes, accVars, fusionVars, vmVars>>

\* MultisigTail::new(threshold, pubkeys)
MultisigNew ==
    /\ codec_call.routine = "MultisigTail"
    /\ codec_bytes = <<>>
    /\ codec_bytes' =
           <<MultisigTail_new(codec_call.arg.threshold, codec_call.arg.pubkeys)>>
    /\ UNCHANGED <<codec_call, codec_ret, accVars, fusionVars, vmVars>>

\* locking_script of the tail that new returned
MultisigLockingScript ==
    /\ codec_call.routine = "MultisigTail"
    /\ codec_bytes # <<>>
    /\ is_some(codec_bytes[1])
    /\ codec_ret = <<>>
    /\ codec_ret' = <<MultisigTail_locking_script(codec_bytes[1][1])>>
    /\ UNCHANGED <<codec_call, codec_bytes, accVars, fusionVars, vmVars>>

\* the permutation run with the constants of FusedPoseidonConstants::compute
RunFusedPermutation ==
    /\ codec_call.routine = "permutation"
    /\ codec_bytes = <<>>
    /\ codec_bytes' = <<FusedPermutation(FusedPoseidonConstants_compute, codec_call.arg)>>
    /\ UNCHANGED <<codec_call, codec_ret, accVars, fusionVars, vmVars>>

\* the textbook permutation on the same input
RunTextbookPermutation ==
    /\ codec_call.routine = "permutation"
    /\ codec_ret = <<>>
    /\ codec_ret' = <<PoseidonPermutation(codec_call.arg)>>
    /\ UNCHANGED <<codec_call, codec_bytes, accVars, fusionVars, vmVars>>

\* ProofGenerator::generate_ipa_witness on a proof
CallGenerateIpaWitness ==
    /\ codec_call.routine = "generate_ipa_witness"
    /\ codec_ret = <<>>
    /\ codec_ret' = <<generate_ipa_witness(codec_call.arg.prev, codec_call.arg.public_inputs,
                                            codec_call.arg.proof, codec_call.arg.new_app_state)>>
    /\ UNCHANGED <<codec_call, codec_bytes, accVars, fusionVars, vmVars>>

\* verify, serialize and unlocking_script on both witnesses of a pair
ReadRounds ==
    /\ codec_call.routine = "rounds"
    /\ codec_ret = <<>>
    /\ codec_ret' = <<[first |-> rounds_read(codec_call.arg.state, codec_call.arg.first),
                       second |-> rounds_read(codec_call.arg.state, codec_call.arg.second)]>>
    /\ UNCHANGED <<codec_call, codec_bytes, accVars, fusionVars, vmVars>>

\* ContractTransactionBuilder::build_output for a value of 1000 satoshis
BuildOutput ==
    /\ codec_call.routine = "build_output"
    /\ codec_bytes = <<>>
    /\ codec_bytes' = <<build_output(codec_call.arg, 1000, codec_call.arg.checks)>>
    /\ UNCHANGED <<codec_call, codec_ret, accVars, fusionVars, vmVars>>

\* apply_transition of the builder's input contract to the builder's witness
ApplyToInput ==
    /\ codec_call.routine = "build_output"
    /\ codec_ret = <<>>
    /\ codec_ret' = <<apply_transition(codec_call.arg.input_state, codec_call.arg.witness,
                                        codec_call.arg.checks)>>
    /\ UNCHANGED <<codec_call, codec_bytes, accVars, fusionVars, vmVars>>

\* WitnessSerializer::deserialize on an input of any length
DeserializeInput ==
    /\ codec_call.routine = "deserialize"
    /\ codec_ret = <<>>
    /\ codec_ret' = <<WitnessSerializer_deserialize(
                          codec_call.arg.bytes, codec_call.arg.num_public_inputs,
                          codec_call.arg.num_rounds, codec_call.arg.has_b,
                          codec_call.arg.has_app_state)>>
    /\ UNCHANGED <<codec_call, codec_bytes, accVars, fusionVars, vmVars>>

\* VerifyPublicData::new(num_inputs, num_app_outputs).copy_and_hash_witnesses()
CopyAndHashWitnesses ==
    /\ codec_call.routine = "guard_engine"
    /\ codec_bytes = <<>>
    /\ codec_bytes' = <<copy_and_hash_witnesses(codec_call.arg.num_inputs,
                                                 codec_call.arg.num_app_outputs)>>
    /\ UNCHANGED <<codec_call, codec_ret, accVars, fusionVars, vmVars>>

\* VerifyBinding::new(num_app_outputs, mode).serialize_outputs()
SerializeOutputs ==
    /\ codec_call.routine = "guard_engine"
    /\ codec_ret = <<>>
    /\ codec_ret' = <<serialize_outputs(codec_call.arg.num_app_outputs)>>
    /\ UNCHANGED <<codec_call, codec_bytes, accVars, fusionVars, vmVars>>

NextCodec ==
    \/ SerializeWitness \/ TruncateWitness \/ DeserializeWitness
    \/ ToScriptBytes \/ TruncateRecord \/ FromBytes
    \/ GenerateIpaWitness \/ ComputeTranscriptHash
    \/ UnlockingScript_call \/ BuildUnlockingScript
    \/ PushBytes \/ DecodePush
    \/ GeneratePoseidonScriptOpt \/ GenerateWitnessPoseidonLogic \/ ComputeFusedConstants
    \/ GenerateForSize \/ EstimateSize
    \/ FpToBytes \/ BytesToFp
    \/ InvokeGenerator \/ InvokeAgain
    \/ MultisigNew \/ MultisigLockingScript
    \/ RunFusedPermutation \/ RunTextbookPermutation
    \/ CallGenerateIpaWitness
    \/ ReadRounds
    \/ BuildOutput \/ ApplyToInput
    \/ DeserializeInput
    \/ CopyAndHashWitnesses \/ SerializeOutputs

SpecCodec == InitCodec /\ [][NextCodec]_vars

Next == ConstructWitness \/ GenerateWitness \/ ApplyTransition

Spec == Init /\ [][Next]_vars

\* a step of ApplyTransition
ApplyStep == pending # <<>> /\ pending' = <<>>

\* C1: whenever apply_transition accepts a witness, the new accumulator has
\* the old step plus one, the witness's next_transcript_hash, and the
\* witness's new_app_state when present, else the old app_state_root.
C1_AcceptedTransition ==
    [][(ApplyStep /\ result' = "Ok") =>
         /\ current_state'.step = current_state.step + 1
         /\ current_state'.transcript_hash = pending[1].next_transcript_hash
         /\ current_state'.app_state_root =
                IF pending[1].new_app_state # <<>>
                THEN pending[1].new_app_state[1]
                ELSE current_state.app_state_root]_vars

\* the digest of a witness's data, as the bytes a claimed digest is compared with
recomputed_digest(w, prev) == fp_to_bytes(compute_transcript_hash(w, prev))

\* C2: when the recomputed digest differs from the claimed
\* next_transcript_hash, apply_transition returns InvalidTranscript and the
\* accumulator is unchanged.
C2_MismatchRejected ==
    [][(ApplyStep /\ recomputed_digest(pending[1], current_state.transcript_hash)
                        # pending[1].next_transcript_hash) =>
         (result' = "InvalidTranscript" /\ current_state' = current_state)]_vars

\* C3: from IPAAccumulator::new, after any sequence of calls of which
\* exactly n were accepted, step = n and transcript_hash is the
\* next_transcript_hash of the last accepted witness (all zero before the
\* first); rejected calls change neither.
C3_AccumulatorChaining ==
    /\ current_state.step = accepted
    /\ current_state.transcript_hash = IF accepted = 0 THEN 0 ELSE last_accepted

\* an absorbed value of the witness is not a canonical encoding
NonCanonical(b) == b >= PallasModulus
HasNonCanonicalInput(w) ==
    \/ \E i \in 1..Len(w.public_inputs) : NonCanonical(w.public_inputs[i])
    \/ \E i \in 1..Min(Len(w.l_terms), Len(w.r_terms)) :
           \/ NonCanonical(w.l_terms[i][1]) \/ NonCanonical(w.l_terms[i][2])
           \/ NonCanonical(w.r_terms[i][1]) \/ NonCanonical(w.r_terms[i][2])
    \/ NonCanonical(w.a_scalar)
    \/ (w.b_scalar # <<>> /\ NonCanonical(w.b_scalar[1]))

\* C4: a witness with a scalar, public input or cross-term coordinate
\* encoded as p or larger is rejected by verify and apply_transition.
C4_CanonicalRejection ==
    [][(ApplyStep /\ HasNonCanonicalInput(pending[1])) =>
         (result' = "InvalidTranscript" /\ current_state' = current_state)]_vars

\* C5: in every accumulator reached through accepted transitions,
\* transcript_hash and app_state_root are canonical encodings.
C5_CanonicalAccumulator ==
    /\ current_state.transcript_hash < PallasModulus
    /\ current_state.app_state_root < PallasModulus

\* C6: for every initial state, the 56 partial rounds 4..59 under the fused
\* schedule (partial_round_c0 only, sparse mixing) end in the same state as
\* under the textbook schedule (all three constants, dense mixing).
C6_FusionEquivalence ==
    (fused_out # <<>> /\ textbook_out # <<>>) => fused_out = textbook_out

\* the unlocking side supplies constants that differ from the genuine set
ConstantsDiffer(scn) ==
    \/ scn.consts # GenuineConstants
    \/ (scn.blob # <<>> /\ scn.blob[1] # to_witness_bytes(FusedPoseidonConstants_compute)
                        /\ scn.blob[1] # GenuineConstants)

\* C8: the locking script of generate_witness_locking_script ends in reject
\* whenever the constants the unlocking side supplies differ in any byte
\* (modulus, matrix entry, full-round or fused partial constant) from the
\* genuine set whose hash is baked in: such a spend is never accepted.
C8_ForgedConstantsRejected ==
    ConstantsDiffer(scenario) => vm_status # "accepted"

\* a forged constant set placed under the committed byte string passed the
\* hash check, and the locking script then aborted inside the round logic
C8_Witness ==
    /\ ConstantsDiffer(scenario)
    /\ scenario.blob = committed
    /\ vm_status = "failed"
    /\ vm_phase = "done"
    /\ pc > 13

\* the spend is the genuine one: the script of generate_witness_unlocking_script
\* with expected the first output element of the permutation of state
GenuineSpend ==
    /\ scenario.genuine
    /\ scenario.expected = PoseidonPermutation(scenario.state)[1]

\* C9: the unlocking script of generate_witness_unlocking_script(state,
\* expected) followed by the locking script runs to completion without a
\* stack error and accepts when expected is the first output element of
\* the permutation of state.
C9_GenuineSpendAccepted ==
    GenuineSpend => vm_status # "failed"

\* C10: the byte string witness_hash commits to is the modulus, then the 9
\* matrix entries row-major, then the 8 full-round triples, then the 56
\* fused partial constants: 90 encodings of 32 bytes, 2,880 bytes.
C10_CommittedLayout ==
    committed # <<>> =>
        /\ committed[1] = PALLAS_MODULUS_BYTES
                          \o extend_bytes(mds_elems(FusedPoseidonConstants_compute))
                          \o extend_bytes(full_elems(FusedPoseidonConstants_compute))
                          \o extend_bytes(FusedPoseidonConstants_compute.partial_round_c0)
        /\ Len(committed[1]) * FIELD_BYTES = 2880

\* C7: a witness returned by generate_ipa_witness for the contract's
\* transcript T passes verify(T), so apply_transition accepts it.
C7_GeneratedWitnessAccepted ==
    [][(ApplyStep /\ generated = "Ok") =>
         (verify(pending[1], current_state.transcript_hash) /\ result' = "Ok")]_vars

\* C11: the fragment of generate_full_round_opt(r), run on the stack
\* [p, m00..m22, s0, s1, s2], finishes without a stack error and leaves
\* [p, m00..m22, o0, o1, o2] with o = M * ((s + rc(r))^5): the constants
\* unchanged and the side stack empty.
C11_FullRoundFragment ==
    scenario.kind = "full" =>
        /\ vm_status # "failed"
        /\ vm_status = "finished" =>
               /\ stack = EmbeddedConstants
                          \o items(TextbookRound(scenario.round, scenario.state))
               /\ alt = <<>>

\* the positions of a fragment at which a constant is added: an OP_ADD
\* whose second operand was just pushed or just fetched from the stack
ConstantAdditions(prog) ==
    {k \in 2..Len(prog) : prog[k].op = "OP_ADD" /\ prog[k - 1].op \in {"PUSH", "OP_PICK"}}

\* the constants below the state on which a fragment runs
ConstantsBelow(frag) == Pop(FragmentStack(frag), 3)

\* C12: every partial-round fragment (generate_partial_round_opt and
\* generate_witness_partial_round) adds exactly one constant, the fused
\* one of its round, to s0 and none to s1 or s2, raises s0 alone to the
\* fifth power and then applies the sparse mixing.
C12_PartialRoundFragment ==
    scenario.kind \in {"partial", "wpartial"} =>
        LET prog == FragmentProgram(scenario)
            c0 == FusedPoseidonConstants_compute.partial_round_c0[scenario.round - 4 + 1]
        IN  /\ Cardinality(ConstantAdditions(prog)) = 1
            /\ (vm_status = "running" /\ pc - 1 \in ConstantAdditions(prog)) =>
                   Top(stack) = <<scenario.state[1] + c0>>
            /\ vm_status = "finished" =>
                   stack = ConstantsBelow(scenario)
                           \o items(FusedPartialRound(FusedPoseidonConstants_compute,
                                                      scenario.round, scenario.state))

\* the depths of the OP_PICKs of a fragment, in program order
PickDepths(prog) ==
    LET at == SelectSeq([k \in 1..Len(prog) |-> k], LAMBDA k : prog[k].op = "OP_PICK")
    IN  [i \in 1..Len(at) |-> prog[at[i] - 1].data[1]]

\* C13: sbox_p_at(d), run on a stack whose top is x with 0 <= x < p and
\* with p at depth d, replaces x by x^5 mod p and changes neither the
\* height nor any other item; its three modulus fetches use the depths
\* d+1, d+2, d+1 and each of them fetches p.
C13_SboxAtDepth ==
    scenario.kind = "sbox" =>
        LET prog == FragmentProgram(scenario)
            d == scenario.depth
        IN  /\ vm_status # "failed"
            /\ PickDepths(prog) = <<d + 1, d + 2, d + 1>>
            /\ (pc > 1 /\ prog[pc - 1].op = "OP_PICK") => Top(stack) = PALLAS_MODULUS_BYTES
            /\ vm_status = "finished" =>
                   /\ stack = Pop(FragmentStack(scenario), 1)
                              \o << <<pow5(scenario.state[1])>> >>
                   /\ alt = <<>>

\* an S-box fragment has finished on an x whose fifth power exceeds p
C13_Witness ==
    /\ scenario.kind = "sbox"
    /\ scenario.depth > 1
    /\ scenario.state[1] > 1
    /\ vm_status = "finished"
    /\ Top(stack) = <<pow5(scenario.state[1])>>

\* the inverse was handed the whole output of the routine
WholeOutput ==
    /\ codec_bytes # <<>>
    /\ codec_ret # <<>>
    /\ codec_bytes[1] = IF codec_call.routine = "WitnessSerializer"
                        THEN WitnessSerializer_serialize(codec_call.arg)
                        ELSE IPAAccumulator_to_script_bytes(codec_call.arg)

\* the inverse was handed a strict prefix of the output of the routine
StrictPrefix ==
    /\ codec_bytes # <<>>
    /\ codec_ret # <<>>
    /\ Len(codec_bytes[1]) < Len(IF codec_call.routine = "WitnessSerializer"
                                 THEN WitnessSerializer_serialize(codec_call.arg)
                                 ELSE IPAAccumulator_to_script_bytes(codec_call.arg))

\* C14: for every witness w with N public inputs, R left and R right
\* terms and any combination of b_scalar and new_app_state present or
\* absent, deserialize(serialize(w), N, R, has_b, has_app_state) returns a
\* witness equal to w field by field.
C14_SerializationRoundTrip ==
    (codec_call.routine = "WitnessSerializer" /\ WholeOutput) =>
        /\ codec_ret[1].status = "Some"
        /\ codec_ret[1].witness = <<codec_call.arg>>

\* a two-round witness with both optional fields came back from its bytes
C14_Witness ==
    /\ codec_call.routine = "WitnessSerializer"
    /\ WholeOutput
    /\ Len(codec_call.arg.l_terms) = 2
    /\ Len(codec_call.arg.public_inputs) = 2
    /\ is_some(codec_call.arg.b_scalar)
    /\ is_some(codec_call.arg.new_app_state)
    /\ codec_ret[1].witness = <<codec_call.arg>>

\* C15: for every witness w and shape parameters matching it, deserialize
\* applied to any strict prefix of serialize(w), the empty input included,
\* returns None and neither panics nor reads out of bounds.
C15_TruncatedInputRejected ==
    (codec_call.routine = "WitnessSerializer" /\ StrictPrefix) =>
        codec_ret[1].status = "None"

\* a prefix that ends inside the last element of a two-round witness was
\* rejected
C15_Witness ==
    /\ codec_call.routine = "WitnessSerializer"
    /\ StrictPrefix
    /\ Len(codec_call.arg.l_terms) = 2
    /\ Len(codec_bytes[1]) = Len(WitnessSerializer_serialize(codec_call.arg)) - 1
    /\ codec_ret[1].status = "None"

\* C16: to_script_bytes yields exactly 68 bytes: transcript_hash (32),
\* then app_state_root (32), then step as 4 little-endian bytes;
\* from_bytes(to_script_bytes(a)) = a for every accumulator a; and
\* from_bytes returns None for any input shorter than 68 bytes.
C16_AccumulatorRecord ==
    codec_call.routine = "IPAAccumulator" =>
        LET a == codec_call.arg
            bytes == IPAAccumulator_to_script_bytes(a)
        IN  /\ Len(bytes) = 68
            /\ SubSeq(bytes, 1, 32) = field_element_bytes(a.transcript_hash)
            /\ SubSeq(bytes, 33, 64) = field_element_bytes(a.app_state_root)
            /\ \A i \in 1..4 : bytes[64 + i] = (a.step \div (256 ^ (i - 1))) % 256
            /\ WholeOutput =>
                   (codec_ret[1].status = "Some" /\ codec_ret[1].acc = <<a>>)
            /\ (codec_ret # <<>> /\ Len(codec_bytes[1]) < 68) =>
                   codec_ret[1].status = "None"

\* an accumulator with a non-zero step came back from its record, and a
\* 67-byte input was rejected
C16_Witness ==
    /\ codec_call.routine = "IPAAccumulator"
    /\ codec_ret # <<>>
    /\ codec_call.arg.step = U32_MAX
    /\ \/ (WholeOutput /\ codec_ret[1].acc = <<codec_call.arg>>)
       \/ (Len(codec_bytes[1]) = 67 /\ codec_ret[1].status = "None")

\* the elements the transcript of one step is to be fed, in order
ExpectedFeed(t) ==
    LET l == t.proof.l_commitments
        r == t.proof.r_commitments
        rounds == [i \in 1..(4 * Len(l)) |->
                      LET k == (i - 1) \div 4 + 1
                          j == (i - 1) % 4
                      IN  IF j = 0 THEN l[k][1] ELSE IF j = 1 THEN l[k][2]
                          ELSE IF j = 2 THEN r[k][1] ELSE r[k][2]]
        fed == <<t.prev>> \o t.public_inputs \o rounds \o <<t.proof.a>> \o t.proof.b
    IN  [i \in 1..Len(fed) |-> IF fed[i] < PallasModulus THEN fed[i] ELSE Fp_ZERO]

\* C17: the sequence of field elements fed into the transcript for one
\* step is the same in generate_ipa_witness and in compute_transcript_hash:
\* the previous digest first, then every public input in declared order,
\* then for each round in ascending order L.x, L.y, R.x, R.y, then
\* a_scalar, then b_scalar when present; nothing else is absorbed.
C17_TranscriptOrder ==
    codec_call.routine = "Transcript" =>
        /\ codec_bytes # <<>> => codec_bytes[1] = ExpectedFeed(codec_call.arg)
        /\ codec_ret # <<>> => codec_ret[1] = ExpectedFeed(codec_call.arg)

\* both routines were fed a step with two public inputs, two rounds and
\* both scalars
C17_Witness ==
    /\ codec_call.routine = "Transcript"
    /\ codec_bytes # <<>>
    /\ codec_ret = codec_bytes
    /\ Len(codec_call.arg.proof.l_commitments) = 2
    /\ Len(codec_call.arg.public_inputs) = 2
    /\ is_some(codec_call.arg.proof.b)
    /\ Len(codec_bytes[1]) = 13

\* the data of the pushes of a script, concatenated
RECURSIVE pushed_data(_)
pushed_data(script) ==
    IF script = <<>> THEN <<>> ELSE Head(script).data \o pushed_data(Tail(script))

\* C18: after the constants blob and the previous-state record,
\* unlocking_script pushes the witness fields in exactly the order and
\* number of WitnessSerializer.serialize (public inputs, per round L.x,
\* L.y, R.x, R.y, a_scalar, b_scalar if present, new application state if
\* present, next transcript digest), each as one 32-byte push;
\* build_unlocking_script then appends the signature and the public key.
C18_UnlockingLayout ==
    codec_call.routine = "Unlocking" =>
        LET serialized == WitnessSerializer_serialize(codec_call.arg.witness)
            fields(script) == SubSeq(script, 3, Len(script))
        IN  /\ codec_bytes # <<>> =>
                /\ \A i \in 1..Len(codec_bytes[1]) : codec_bytes[1][i].op = "PUSH"
                /\ \A i \in 3..Len(codec_bytes[1]) :
                       Len(codec_bytes[1][i].data) = FIELD_BYTES
                /\ pushed_data(fields(codec_bytes[1])) = serialized
            /\ codec_ret # <<>> =>
                   codec_ret[1] =
                       push_bytes(extend_from_slices(
                           to_witness_bytes(FusedPoseidonConstants_compute)))
                       \o push_bytes(IPAAccumulator_to_script_bytes(codec_call.arg.input_state))
                       \o [i \in 1..(Len(serialized) \div FIELD_BYTES) |->
                              push_bytes(SubSeq(serialized, (i - 1) * FIELD_BYTES + 1,
                                                i * FIELD_BYTES))[1]]
                       \o push_bytes(codec_call.arg.operator_signature)
                       \o push_bytes(codec_call.arg.operator_pubkey)

\* the header push_bytes is to write before a byte string of length n
PushHeader(n) ==
    IF n = 0 THEN <<0>>
    ELSE IF n <= 75 THEN <<n>>
    ELSE IF n <= 255 THEN <<76, n>>
    ELSE IF n <= 65535 THEN <<77, n % 256, n \div 256>>
    ELSE <<78, n % 256, (n \div 256) % 256, (n \div 65536) % 256, n \div 16777216>>

\* C19: push_bytes(d) is OP_0 alone when d is empty; one length byte and d
\* when 1 <= len(d) <= 75; OP_PUSHDATA1, a one-byte length and d when
\* 76 <= len(d) <= 255; OP_PUSHDATA2, a two-byte little-endian length and
\* d when 256 <= len(d) <= 65535; OP_PUSHDATA4, a four-byte little-endian
\* length and d otherwise; decoding the push recovers exactly d.
C19_PushEncoding ==
    codec_call.routine = "push_bytes" =>
        /\ codec_bytes # <<>> =>
               codec_bytes[1] = (IF codec_call.arg = <<>> THEN <<0>>
                                 ELSE PushHeader(Len(codec_call.arg)) \o codec_call.arg)
        /\ codec_ret # <<>> =>
               (codec_ret[1].ok /\ codec_ret[1].data = codec_call.arg)

\* a 76-byte string was pushed with OP_PUSHDATA1 and read back
C19_Witness ==
    /\ codec_call.routine = "push_bytes"
    /\ Len(codec_call.arg) = 76
    /\ codec_bytes # <<>>
    /\ codec_bytes[1][1] = 76
    /\ codec_ret # <<>>
    /\ codec_ret[1].data = codec_call.arg

\* the fragment a whole-permutation generator is to emit for round r
RoundFragment(generator, r) ==
    IF generator = "generate_poseidon_script_opt"
    THEN IF r \in 0..3 \cup 60..63 THEN generate_full_round_opt(r)
         ELSE generate_partial_round_opt(r)
    ELSE IF r \in 0..3 \cup 60..63 THEN generate_witness_full_round(r)
         ELSE generate_witness_partial_round(r)

\* the fragments of rounds from..to, in ascending order
RECURSIVE AscendingFragments(_, _, _)
AscendingFragments(generator, from, to) ==
    IF from > to THEN <<>>
    ELSE IF from = to THEN RoundFragment(generator, from)
    ELSE LET mid == (from + to) \div 2
         IN  AscendingFragments(generator, from, mid)
             \o AscendingFragments(generator, mid + 1, to)

\* the fused constant of partial round r, from the round constants and
\* the matrix
FusedConstantOf(r) ==
    LET m == get_mds_fp
        c(i) == get_round_constant(r - 1, i)
    IN  IF r = 4 THEN get_round_constant(r, 0)
        ELSE (get_round_constant(r, 0)
              + m[1][2] * ((m[2][2] * c(1) + m[2][3] * c(2)) % PallasModulus)
              + m[1][3] * ((m[3][2] * c(1) + m[3][3] * c(2)) % PallasModulus))
             % PallasModulus

\* C20: generate_poseidon_script_opt and generate_witness_poseidon_logic
\* emit exactly 64 round fragments in ascending round order, a full-round
\* fragment for rounds 0..3 and 60..63 and a partial-round fragment for
\* rounds 4..59; FusedPoseidonConstants::compute returns exactly 8
\* full-round triples (rounds 0, 1, 2, 3, 60, 61, 62, 63 in that order)
\* and 56 partial constants (rounds 4..59 in order).
C20_RoundSchedule ==
    codec_ret # <<>> =>
        /\ codec_call.routine = "generate_poseidon_script_opt" =>
               codec_ret[1] = init_constants
                              \o AscendingFragments(codec_call.routine, 0, 63)
        /\ codec_call.routine = "generate_witness_poseidon_logic" =>
               codec_ret[1] = AscendingFragments(codec_call.routine, 0, 63)
        /\ codec_call.routine = "FusedPoseidonConstants::compute" =>
               /\ codec_ret[1].full_round_constants =
                      [k \in 1..8 |->
                          LET r == <<0, 1, 2, 3, 60, 61, 62, 63>>[k]
                          IN  <<get_round_constant(r, 0), get_round_constant(r, 1),
                                get_round_constant(r, 2)>>]
               /\ codec_ret[1].partial_round_c0 = [k \in 1..56 |-> FusedConstantOf(k + 3)]

\* a whole permutation has been emitted
C20_Witness ==
    /\ codec_call.routine = "generate_poseidon_script_opt"
    /\ codec_ret # <<>>
    /\ Len(codec_ret[1]) > 64
    /\ SubSeq(codec_ret[1], 11, 10 + Len(generate_full_round_opt(0)))
           = generate_full_round_opt(0)

\* C21: each size estimator returns exactly the byte length of what its
\* generator emits: estimate_poseidon_size of generate_poseidon_script_opt,
\* estimate_witness_unlock_size of generate_witness_unlocking_script(state,
\* expected) for every state and expected value, and witness_size of
\* to_witness_bytes.
C21_SizeEstimates ==
    (codec_call.routine = "estimate" /\ codec_bytes # <<>> /\ codec_ret # <<>>) =>
        codec_ret[1] = codec_bytes[1]

\* the whole-permutation script and its estimate have both been computed
C21_Witness ==
    /\ codec_call.routine = "estimate"
    /\ codec_call.arg.of = "generate_poseidon_script_opt"
    /\ codec_bytes # <<>>
    /\ codec_bytes[1] > 64 * 33
    /\ codec_ret = codec_bytes

C24_MultisigTail ==
    (codec_call.routine = "MultisigTail" /\ codec_bytes # <<>>) =>
        LET t == codec_call.arg.threshold
            keys == codec_call.arg.pubkeys
            n == Len(keys)
        IN  /\ is_some(codec_bytes[1]) <=>
                   (1 <= t /\ t <= 16 /\ 1 <= n /\ n <= 16 /\ t <= n)
            /\ codec_ret # <<>> =>
                   /\ ~codec_ret[1].overflow
                   /\ Len(codec_ret[1].script) = 34 * n + 3
                   /\ codec_ret[1].script[1] = 80 + t
                   /\ \A j \in 1..n :
                          /\ codec_ret[1].script[34 * (j - 1) + 2] = 33
                          /\ SubSeq(codec_ret[1].script, 34 * (j - 1) + 3, 34 * j + 1)
                                 = keys[j]
                   /\ codec_ret[1].script[34 * n + 2] = 80 + n
                   /\ codec_ret[1].script[34 * n + 3] = 174

C24_Witness ==
    /\ codec_call.routine = "MultisigTail"
    /\ codec_call.arg.threshold = 16
    /\ Len(codec_call.arg.pubkeys) = 16
    /\ codec_call.arg.pubkeys[1][1] = 16
    /\ codec_ret # <<>>
    /\ codec_ret[1].script[1] = 96

\* the positions, in the spend program, of the three comparisons of the
\* locking script with a value taken back from the side stack
CheckPositions(builder) ==
    LET u == Len(build_unlocking_script(builder))
        h == Len(locking_script_header(SpentContract(builder)))
    IN  <<u + h + 4, u + h + 8, Len(SpendProgram(builder)) - 1>>

\* C25: in the locking script, each value taken back from the side stack
\* is compared with its intended counterpart (the constants hash with
\* SHA-256 of the supplied constants blob, the state commitment with the
\* hash of the supplied previous state, the operator key hash with HASH160
\* of the supplied public key), so no comparison fails in a spend by the
\* operator built for the same contract state.
C25_LockingChecks ==
    scenario.kind = "locking" =>
        LET b == scenario.builder
            c == SpentContract(b)
            at == CheckPositions(b)
            n == Len(stack)
            blob == extend_from_slices(to_witness_bytes(c.constants))
        IN  /\ (vm_status = "running" /\ pc = at[1]) =>
                   /\ stack[n] = c.constants_hash
                   /\ stack[n - 1] = Sha256(blob)
            /\ (vm_status = "running" /\ pc = at[2]) =>
                   /\ stack[n] = field_element_bytes(fp_to_bytes(IPAAccumulator_hash(b.input_state)))
                   /\ stack[n - 1] = Sha256(IPAAccumulator_to_script_bytes(b.input_state))
            /\ (vm_status = "running" /\ pc = at[3]) =>
                   /\ stack[n] = c.operator_pkh
                   /\ stack[n - 1] = Hash160(b.operator_pubkey)
            /\ vm_status = "failed" => \A k \in 1..3 : pc - 1 # at[k]

\* the instruction about to run is an OP_PICK whose copy is consumed by op
FetchFor(op) ==
    LET prog == FragmentProgram(scenario)
    IN  /\ vm_status = "running"
        /\ pc < Len(prog)
        /\ prog[pc].op = "OP_PICK"
        /\ prog[pc + 1].op = op

\* the item the OP_PICK about to run copies; <<>> when its depth is not on
\* the stack
Fetched ==
    LET rest == Pop(stack, 1)
        d == Top(stack)[1]
    IN  IF d < Len(rest) THEN AtDepth(rest, d) ELSE <<>>

\* the position of the first fetch of a round constant in the fragment
FirstConstantFetch ==
    LET prog == FragmentProgram(scenario)
        fetch(i) == prog[i].op = "OP_PICK" /\ prog[i + 1].op = "OP_ADD"
    IN  CHOOSE i \in 1..(Len(prog) - 1) : fetch(i) /\ \A j \in 1..(i - 1) : ~fetch(j)

\* the constant the layout stores for the first constant fetch of round r:
\* rc2 of a full round, the fused constant of a partial round
StoredConstant ==
    LET fc == FusedPoseidonConstants_compute
        r == scenario.round
    IN  IF scenario.kind = "wfull"
        THEN fc.full_round_constants[IF r < 4 THEN r + 1 ELSE r - 60 + 5][3]
        ELSE fc.partial_round_c0[r - 4 + 1]

\* C26: in the witness-relative round fragments run on [p][m00..m22][24
\* full-round constants][56 fused constants][s0][s1][s2], the fetch for
\* round r's constant copies the constant the layout stores for round r,
\* every modulus fetch copies p and every matrix fetch copies a matrix
\* entry.
C26_WitnessFetches ==
    scenario.kind \in {"wfull", "wpartial"} =>
        /\ (FetchFor("OP_ADD") /\ pc = FirstConstantFetch) =>
               Fetched = <<fp_to_bytes(StoredConstant)>>
        /\ FetchFor("OP_MOD") => Fetched = PALLAS_MODULUS_BYTES
        /\ FetchFor("OP_MUL") =>
               \E e \in 1..9 :
                   Fetched = <<fp_to_bytes(mds_elems(FusedPoseidonConstants_compute)[e])>>

\* the dense product M * s mod p, and the sparse one whose rows 1 and 2
\* keep the first column and the diagonal
DenseProduct(M, st) ==
    [i \in 1..3 |-> (M[i][1] * st[1] + M[i][2] * st[2] + M[i][3] * st[3]) % PallasModulus]
SparseProduct(M, st) ==
    <<(M[1][1] * st[1] + M[1][2] * st[2] + M[1][3] * st[3]) % PallasModulus,
      (M[2][1] * st[1] + st[2]) % PallasModulus,
      (M[3][1] * st[1] + st[3]) % PallasModulus>>

\* the number of OP_MUL instructions of a program
RECURSIVE CountMul(_)
CountMul(prog) ==
    IF prog = <<>> THEN 0
    ELSE (IF Head(prog).op = "OP_MUL" THEN 1 ELSE 0) + CountMul(Tail(prog))

\* C27: generate_dense_mds run on [p, m00..m22, s0, s1, s2] with an empty
\* side stack finishes without a stack error and leaves [p, m00..m22, o0,
\* o1, o2] with o = M * s mod p, the constants unchanged, the side stack
\* empty.
C27_DenseMds ==
    (scenario.kind = "dense" /\ vm_phase = "done") =>
        /\ vm_status = "finished"
        /\ stack = EmbeddedConstants
                   \o items(DenseProduct(FusedPoseidonConstants_compute.mds, scenario.state))
        /\ alt = <<>>

\* C28: generate_sparse_mds run on [p, m00..m22, s0, s1, s2] with an empty
\* side stack finishes without a stack error and leaves [p, m00..m22, o0,
\* o1, o2] with o0 the full first row, o1 = M10*s0 + s1, o2 = M20*s0 + s2
\* mod p, using exactly five multiplications, the constants unchanged, the
\* side stack empty.
C28_SparseMds ==
    scenario.kind = "sparse" =>
        /\ CountMul(generate_sparse_mds) = 5
        /\ vm_phase = "done" =>
               /\ vm_status = "finished"
               /\ stack = EmbeddedConstants
                          \o items(SparseProduct(FusedPoseidonConstants_compute.mds,
                                                 scenario.state))
               /\ alt = <<>>

\* the instruction about to run is a field addition or multiplication
ArithmeticNext ==
    LET prog == FragmentProgram(scenario)
    IN  /\ vm_status = "running"
        /\ pc <= Len(prog)
        /\ prog[pc].op \in {"OP_ADD", "OP_MUL"}
        /\ Len(stack) >= 2

\* C29: in the program of generate_secure_witness_verification every
\* supplied field value the permutation consumes (the three state elements
\* and the expected digest) is checked to be below p: a run with a supplied
\* value that is p or greater does not finish, and no addition or
\* multiplication runs on a value that is p or greater.
C29_CanonicalInputs ==
    scenario.kind = "secure" =>
        /\ ArithmeticNext =>
               \A k \in 0..1 :
                   IsNum(AtDepth(stack, k)) => AtDepth(stack, k)[1] < PallasModulus
        /\ (\E i \in 1..3 : scenario.state[i] >= PallasModulus)
               \/ scenario.expected >= PallasModulus
           => vm_status # "finished"

\* what the loop of compute() holds in acc_c1, acc_c2 after round 59
PendingContribution ==
    LET st == fuse_loop(get_mds_fp, 4, 4 + PARTIAL_ROUNDS,
                        [partial_round_c0 |-> <<>>, acc_c1 |-> Fp_ZERO,
                         acc_c2 |-> Fp_ZERO])
    IN  <<st.acc_c1, st.acc_c2>>

\* C30: the contribution (acc_c1, acc_c2) pending after the last fused
\* partial round is incorporated into the constants round 60 uses, so the
\* fused 64-round permutation (4 full, 56 fused partial, 4 full) equals the
\* textbook 64-round permutation on every input.
C30_PendingIncorporated ==
    codec_call.routine = "permutation" =>
        /\ (codec_bytes # <<>> /\ PendingContribution # <<Fp_ZERO, Fp_ZERO>>) =>
               FusedPoseidonConstants_compute.full_round_constants[5] # round_constants(60)
        /\ (codec_bytes # <<>> /\ codec_ret # <<>>) => codec_bytes[1] = codec_ret[1]

\* C31: the fused constant published for partial round r (4..59) is
\* c0(r) + M[0][1]*acc1 + M[0][2]*acc2 with (acc1, acc2) = (0, 0) for r = 4
\* and otherwise computed from c1(r-1), c2(r-1) alone; the first fused
\* constant is the textbook c0(4).
C31_FusedConstants ==
    (codec_call.routine = "FusedPoseidonConstants::compute" /\ codec_ret # <<>>) =>
        LET m == get_mds_fp
            acc1(r) == IF r = 4 THEN 0
                       ELSE (m[2][2] * get_round_constant(r - 1, 1)
                             + m[2][3] * get_round_constant(r - 1, 2)) % PallasModulus
            acc2(r) == IF r = 4 THEN 0
                       ELSE (m[3][2] * get_round_constant(r - 1, 1)
                             + m[3][3] * get_round_constant(r - 1, 2)) % PallasModulus
        IN  /\ Len(codec_ret[1].partial_round_c0) = PARTIAL_ROUNDS
            /\ codec_ret[1].partial_round_c0[1] = get_round_constant(4, 0)
            /\ \A r \in 4..59 :
                   codec_ret[1].partial_round_c0[r - 3] =
                       (get_round_constant(r, 0) + m[1][2] * acc1(r) + m[1][3] * acc2(r))
                           % PallasModulus

C31_Witness ==
    /\ codec_call.routine = "FusedPoseidonConstants::compute"
    /\ codec_ret # <<>>
    /\ \E r \in 5..59 : codec_ret[1].partial_round_c0[r - 3] # get_round_constant(r, 0)

\* C32: generate_ipa_witness returns the LRLengthMismatch error and no
\* witness whenever the proof's left and right cross-term lists differ in
\* length; every witness it returns has l_terms and r_terms of equal
\* length.
C32_LengthMismatch ==
    (codec_call.routine = "generate_ipa_witness" /\ codec_ret # <<>>) =>
        LET proof == codec_call.arg.proof
            g == codec_ret[1]
        IN  /\ Len(proof.l_commitments) # Len(proof.r_commitments) =>
                   /\ ~g.ok
                   /\ g.err = "LRLengthMismatch"
                   /\ g.witness = <<>>
            /\ g.witness # <<>> =>
                   /\ g.ok
                   /\ Len(g.witness[1].l_terms) = Len(g.witness[1].r_terms)

C32_Witness ==
    /\ codec_call.routine = "generate_ipa_witness"
    /\ Len(codec_call.arg.proof.l_commitments) = 2
    /\ Len(codec_call.arg.proof.r_commitments) = 1
    /\ codec_ret # <<>>
    /\ codec_ret[1].err = "LRLengthMismatch"

\* the three conditions of the guard on [Proof, AppBytes, ChangeBytes,
\* Preimage]
GuardConditions(scn) ==
    LET len == Len(scn.preimage)
    IN  /\ len >= 40
        /\ SubSeq(scn.preimage, len - 39, len - 8) = HashOutputs(scn.app, scn.change)
        /\ Len(scn.app) > 32
        /\ Len(scn.proof) > 128

\* C33: run on [Proof, AppBytes, ChangeBytes, Preimage] with an empty side
\* stack, the Guard::universal program accepts exactly when the double
\* SHA-256 of AppBytes || ChangeBytes equals bytes len-40 .. len-8 of
\* Preimage, AppBytes is longer than 32 bytes and Proof is longer than 128
\* bytes; on acceptance exactly TRUE is left on the main stack and the side
\* stack is empty; otherwise the program aborts.
C33_UniversalGuard ==
    (scenario.kind = "guard" /\ vm_phase = "done") =>
        /\ vm_status = "finished" <=> GuardConditions(scenario)
        /\ vm_status = "finished" => (stack = << <<1>> >> /\ alt = <<>>)
        /\ ~GuardConditions(scenario) => vm_status = "failed"

C33_Witness ==
    /\ scenario.kind = "guard"
    /\ Len(scenario.preimage) = 50
    /\ GuardConditions(scenario)
    /\ vm_phase = "done"
    /\ vm_status = "finished"
    /\ stack = << <<1>> >>

\* C34: after every accepted apply_transition the new step is strictly
\* greater than the old step, for every starting value of the counter
\* including its maximum: the counter never wraps to a smaller value, and a
\* transition whose witness verifies never fails because of the increment.
C34_StepIncreases ==
    [][(ApplyStep /\ verify(pending[1], current_state.transcript_hash)) =>
         /\ result' = "Ok"
         /\ current_state'.step > current_state.step]_vars

\* the outcome of apply_transition as the caller sees it
outcome(r) == IF r.ok THEN "Ok" ELSE r.err

\* C35: whether apply_transition accepts a witness does not depend on the
\* witness's new_app_state: against the same accumulator, a witness and
\* every witness that differs from it only in new_app_state are both
\* accepted or both rejected.
C35_AppStateUnbound ==
    [][ApplyStep =>
         \A other \in AppStateChoices :
             outcome(apply_transition(current_state,
                                      [pending[1] EXCEPT !.new_app_state = other],
                                      overflow_checks)) = result']_vars

C35_Witness ==
    /\ result = "Ok"
    /\ accepted = 1
    /\ current_state.app_state_root = 4
    /\ pending = <<>>

\* C36: verify, WitnessSerializer::serialize and
\* VerifierContract::unlocking_script read only the first
\* min(|l_terms|, |r_terms|) rounds: two witnesses that differ only in terms
\* at an index at or beyond that minimum have the same transcript digest,
\* the same serialized bytes, the same unlocking script and the same
\* acceptance result.
C36_SurplusRoundsIgnored ==
    (codec_call.routine = "rounds" /\ codec_ret # <<>>) =>
        /\ codec_ret[1].first.digest = codec_ret[1].second.digest
        /\ codec_ret[1].first.bytes = codec_ret[1].second.bytes
        /\ codec_ret[1].first.script = codec_ret[1].second.script
        /\ codec_ret[1].first.accepted = codec_ret[1].second.accepted

C36_Witness ==
    /\ codec_call.routine = "rounds"
    /\ common_rounds(codec_call.arg.first) = 1
    /\ Len(codec_call.arg.first.l_terms) = 2
    /\ Len(codec_call.arg.second.r_terms) = 2
    /\ codec_ret # <<>>
    /\ codec_ret[1].first.accepted
    /\ codec_ret[1].second.accepted

\* C37: whenever apply_transition accepts, the state of the output that
\* ContractTransactionBuilder::build_output builds is the accumulator
\* apply_transition returns; build_output makes no transcript check and
\* yields that successor state (the witness's next_transcript_hash, its
\* new_app_state or the old root, the next step) for every witness,
\* rejected ones included.
C37_BuildOutputRefines ==
    (codec_call.routine = "build_output" /\ codec_bytes # <<>> /\ codec_ret # <<>>) =>
        LET b == codec_bytes[1]
            r == codec_ret[1]
            w == codec_call.arg.witness
            old == codec_call.arg.input_state
        IN  /\ b.status = "Ok"
            /\ r.ok => b.output[1].state = r.state
            /\ b.output[1].state.transcript_hash = w.next_transcript_hash
            /\ b.output[1].state.app_state_root =
                   unwrap_or(w.new_app_state, old.app_state_root)

\* C38: WitnessSerializer::deserialize with shape (N, R, has_b,
\* has_app_state) returns a witness exactly when the input has at least
\* 32*N + 128*R + 32 + 32*[has_b] + 32*[has_app_state] + 32 bytes; bytes
\* beyond that length are ignored: the witness is the one read from the
\* first that many bytes, with the lists and options of the shape.
C38_DeserializeLength ==
    (codec_call.routine = "deserialize" /\ codec_ret # <<>>) =>
        LET d == codec_call.arg
            need == bytes_read(d.num_public_inputs, d.num_rounds, d.has_b, d.has_app_state)
            ret == codec_ret[1]
        IN  /\ ret.status = "Some" <=> Len(d.bytes) >= need
            /\ ret.status # "Some" => (ret.status = "None" /\ ret.witness = <<>>)
            /\ ret.status = "Some" =>
                   /\ ret = WitnessSerializer_deserialize(
                                SubSeq(d.bytes, 1, need), d.num_public_inputs,
                                d.num_rounds, d.has_b, d.has_app_state)
                   /\ Len(ret.witness[1].public_inputs) = d.num_public_inputs
                   /\ Len(ret.witness[1].l_terms) = d.num_rounds
                   /\ Len(ret.witness[1].r_terms) = d.num_rounds
                   /\ is_some(ret.witness[1].b_scalar) = d.has_b
                   /\ is_some(ret.witness[1].new_app_state) = d.has_app_state
                   /\ WitnessSerializer_serialize(ret.witness[1]) = SubSeq(d.bytes, 1, need)

C38_Witness ==
    /\ codec_call.routine = "deserialize"
    /\ codec_call.arg.num_public_inputs = 2
    /\ codec_call.arg.num_rounds = 2
    /\ codec_call.arg.has_b
    /\ codec_call.arg.has_app_state
    /\ Len(codec_call.arg.bytes) = bytes_read(2, 2, TRUE, TRUE) + 100
    /\ codec_ret # <<>>
    /\ codec_ret[1].status = "Some"

\* the depths a script fetches by: the number pushed just before each OP_PICK
RECURSIVE fetch_depths(_, _)
fetch_depths(script, k) ==
    IF k > Len(script) THEN <<>>
    ELSE (IF script[k].op = "OP_PICK" THEN <<script[k - 1].data[1]>> ELSE <<>>)
         \o fetch_depths(script, k + 1)

\* the depths the generators compute, in emission order
RECURSIVE witness_depths(_, _)
witness_depths(i, total) ==
    IF i >= total THEN <<>>
    ELSE LET witness_offset == 3 + (total - 1 - i) * 3
         IN  <<witness_offset + 2, witness_offset + 2, witness_offset + 2>>
             \o witness_depths(i + 1, total)
RECURSIVE output_depths(_, _)
output_depths(i, total) ==
    IF i >= total THEN <<>>
    ELSE LET output_base == 3 + (total - 1 - i) * 3
         IN  <<output_base + 2, output_base + 2>> \o output_depths(i + 1, total)

\* C39: for every configuration UniversalGuard::validate accepts (1 to 16
\* inputs, 0 to 16 application outputs), each fetch-by-depth emitted by
\* VerifyPublicData::copy_and_hash_witnesses and
\* VerifyBinding::serialize_outputs encodes the depth computed for it
\* (witness_offset or output_base plus its adjustment); no computed depth is
\* replaced by a smaller depth opcode.
C39_FetchDepths ==
    (codec_call.routine = "guard_engine"
       /\ UniversalGuard_validate(codec_call.arg) = "Ok") =>
        /\ codec_bytes # <<>> =>
               fetch_depths(codec_bytes[1], 1) =
                   witness_depths(0, codec_call.arg.num_inputs
                                     + codec_call.arg.num_app_outputs)
        /\ codec_ret # <<>> =>
               fetch_depths(codec_ret[1], 1) =
                   output_depths(0, codec_call.arg.num_app_outputs)

====
